---- MODULE Spec2Model ----
(***************************************************************************)
(* A model of the timekeeper repository: the Proof-of-History engine and   *)
(* its verifier (poh/src/core.rs, lib/src/utils/hash.rs), the tick         *)
(* scheduler (poh/src/thread.rs), the thread manager and the thread pool   *)
(* (thread/src/native).                                                     *)
(*                                                                         *)
(* Digests.  The hash function is treated as collision free: a 32-byte     *)
(* digest is the term that names its preimage,                             *)
(*     [pre |-> digests hashed first, data |-> bytes hashed after, n]      *)
(* where n counts the further applications of the hash to the 32-byte      *)
(* digest alone.  Byte strings of the model are shorter than 32 bytes, so  *)
(* no byte string aliases a digest.                                        *)
(***************************************************************************)
EXTENDS Integers, Sequences, FiniteSets, TLC

\* ------------------------------------------------------------------------
\* Program constants
\* ------------------------------------------------------------------------
DEFAULT_HASHES_PER_TICK == 12500
DEFAULT_TICKS_PER_SLOT == 64
DEFAULT_SLOTS_PER_EPOCH == 432000
DEFAULT_US_PER_TICK == 6250
MAX_THREAD_NAME_CHARS == 32

\* ------------------------------------------------------------------------
\* Bounds of the model
\* ------------------------------------------------------------------------
\* The largest counter value: stands for u64::MAX within TLC's integers.
U64Max == 2147483646
\* Byte values 0..MaxByte.
MaxByte == 1
\* Engine runs of specification Spec: number of ticks, latest clock reading.
MaxTicks == 3
MaxNow == 1
\* Engine runs of specification SpecSlots: ticks and stamped events.
SlotRunTicks == 66
SlotRunEvents == 1
\* Scheduler runs: BatchSize stands for DEFAULT_BATCH_SIZE (64) and
\* ChannelCapacity for DEFAULT_CHANNEL_CAPACITY (1000), both scaled down;
\* max_ticks is drawn from 0..MaxMaxTicks.
BatchSize == 2
ChannelCapacity == 3
MaxMaxTicks == 11
\* Manager runs: calling threads, max_threads drawn from 1..MaxMaxThreads,
\* threads launched in all, calls of spawn in all.
MaxCallers == 2
MaxMaxThreads == 2
MaxLaunched == 3
MaxSpawnCalls == 3
\* Pool runs: workers drawn from 1..MaxWorkers, jobs submitted in all.
MaxWorkers == 2
MaxJobs == 2
\* Pool runs: threads besides the one that owns the pool (the workers, and
\* a second calling thread when there is one).
MaxPoolThreads == 2
\* verify_timestamps runs: the largest timestamp_ms of a record, the longest
\* slice of records, and the tolerances a caller may ask for.
MaxTimestamp == 22
MaxVtRecords == 3
ToleranceMs == {0, 8, 20}
\* extend_hash_chain runs followed from their entry: iterations in
\* 0..MaxIterations.
MaxIterations == 20
\* Engine runs of specification SpecLate: the calls left before tick_count
\* reaches u64::MAX.
LateTicks == 2

Byte == 0..MaxByte
Seeds == {<<>>, <<1>>}
EventData == {<<>>, <<0>>, <<0, 1>>}

\* Option<T>: None is <<>>, Some(x) is <<x>>.
None == <<>>
Some(x) == <<x>>

VARIABLES
  \* PoH engine (poh/src/types.rs: struct PoH) and what it has emitted.
  seed,            \* the seed the engine was created from
  current_hash,
  tick_count,
  slot_count,
  epoch_count,
  now,             \* last reading of start_time.elapsed(), in ms
  engine,          \* "running" | "panicked"
  records,         \* the records returned so far, in emission order
  \* Tick scheduler (poh/src/thread.rs: thread).
  max_ticks,           \* the argument of thread(seed, max_ticks)
  worker_pc,           \* "idle" | "tick" | "send" | "pace" | "flush" | "done"
  tick_i,              \* the loop variable i
  records_batch,
  next_tick_target_us,
  channel,             \* the records buffered in the sync_channel
  rx_alive,            \* the Receiver has not been dropped
  received,            \* what recv() has returned, in order
  rx_disconnected,     \* recv() has returned Err (channel closed)
  ticks_after_drop,    \* the worker's ticks since the receiver was dropped
  \* Thread manager (thread/src/native/types.rs: ManagerInner, JoinHandle).
  mgr_max_threads,     \* config.max_threads
  mgr_name_len,        \* name.len()
  running_count,
  id_count,
  mgr_threads,         \* the state of each thread launched
  handles,             \* the threads whose JoinHandle a caller holds
  caller,              \* per calling thread: [pc, tid, result]
  \* Thread pool (thread/src/native/types.rs: ThreadPool, ThreadPoolStats).
  pool_size,           \* config.max_threads, the number of workers
  job_queue,           \* the ids of the queued jobs, front first
  shutdown,
  active_workers,
  completed_jobs,
  stats,               \* [total_jobs_completed, failed_jobs, peak_queue_size, peak_active_workers]
  wk,                  \* per worker: [pc, job, result]
  jobs,                \* per submitted job: [kind, via, state]
  main_pc,             \* the thread that owns the pool
  main_result,         \* what its last call returned
  wfc_submitted,       \* the jobs submitted when wait_for_completion was called
  join_stats,          \* the statistics join() returned
  aux_pc,              \* a second thread, calling execute_wait on &pool
  aux_result,
  done_flag,           \* execute_wait: done_flag
  result_slot,         \* execute_wait: result
  \* A call of verify_timestamps (poh/src/core.rs).
  vt_records,          \* the records argument
  vt_log_failures,     \* the log_failures argument
  vt_result,           \* <<>> before the call, <<returned value>> after it
  \* A second engine created from the seed of the first and driven by the
  \* same calls (poh/src/core.rs).
  twin_phase,          \* "none", or which engine is running: "first" / "second"
  twin_calls,          \* the calls made on the first engine: None or Some(data)
  twin_records,        \* the records the first engine emitted
  \* A call of extend_hash_chain (lib/src/utils/hash.rs), step by step.
  ec_pc,               \* "idle", "entry", "short", "unrolled", "remainder", "returned"
  ec_prev_hash,
  ec_iterations,
  ec_current_hash,
  ec_i,                \* the loop counter of the loop being run
  ec_applied,          \* the calls of hash_single made so far
  \* A call of one of the other functions and constructors.
  fn_name,             \* "none" or the function called
  fn_args,             \* its arguments
  fn_result,           \* what it returned
  \* The mutexes of a thread pool (thread/src/native/pool.rs) and the
  \* threads that take them.
  lk_pc,               \* per thread: where it is in its code
  lk_owner             \* per mutex: the thread that holds it, or "free"

pohVars == <<seed, current_hash, tick_count, slot_count, epoch_count, now, engine, records>>
schedVars == <<max_ticks, worker_pc, tick_i, records_batch, next_tick_target_us,
               channel, rx_alive, received, rx_disconnected, ticks_after_drop>>
mgrVars == <<mgr_max_threads, mgr_name_len, running_count, id_count, mgr_threads,
             handles, caller>>
poolVars == <<pool_size, job_queue, shutdown, active_workers, completed_jobs, stats,
              wk, jobs, main_pc, main_result, wfc_submitted, join_stats, aux_pc,
              aux_result, done_flag, result_slot>>
vtVars == <<vt_records, vt_log_failures, vt_result>>
twinVars == <<twin_phase, twin_calls, twin_records>>
chainVars == <<ec_pc, ec_prev_hash, ec_iterations, ec_current_hash, ec_i, ec_applied>>
fnVars == <<fn_name, fn_args, fn_result>>
lockVars == <<lk_pc, lk_owner>>
vars == <<pohVars, schedVars, mgrVars, poolVars, vtVars, twinVars, chainVars, fnVars,
          lockVars>>

\* ------------------------------------------------------------------------
\* Hash primitives (lib/src/utils/hash.rs)
\* ------------------------------------------------------------------------
\* The digest of pre[1] || ... || pre[k] || data, pre a sequence of digests.
Digest(pre, data) ==
  IF Len(pre) = 1 /\ data = <<>>
  THEN [pre[1] EXCEPT !.n = @ + 1]
  ELSE [pre |-> pre, data |-> data, n |-> 0]

hash(data) == Digest(<<>>, data)

\* Bug variant: the event is hashed on its own first, then combined.
hash_with_data_double(prev_hash, data) == Digest(<<prev_hash, hash(data)>>, <<>>)

hash_with_data(prev_hash, data) == Digest(<<prev_hash>>, data)

hash_single(input) == Digest(<<input>>, <<>>)

\* k successive calls current_hash = hash_single(&current_hash).
RECURSIVE hash_times(_, _)
hash_times(h, k) == IF k = 0 THEN h ELSE hash_times(hash_single(h), k - 1)

extend_hash_chain(prev_hash, iterations) ==
  IF iterations < 8
  THEN hash_times(prev_hash, iterations)
  ELSE LET \* passes of the unrolled loop: the largest i = 8 * passes with i <= iterations
           passes == iterations \div 8
           i == 8 * passes
           unrolled == [prev_hash EXCEPT !.n = @ + (8 * passes)]
       IN  hash_times(unrolled, iterations - i)

\* result |= a[i] ^ b[i] over the 32 bytes; result == 0.
constant_time_eq(a, b) == a = b

\* Bug variant: the event is not threaded through before the extension.
verify_hash_chain_no_event(prev_hash, next_hash, iterations, event_data) ==
  constant_time_eq(extend_hash_chain(prev_hash, iterations), next_hash)

verify_hash_chain(prev_hash, next_hash, iterations, event_data) ==
  LET expected_hash == IF event_data # None
                       THEN hash_with_data(prev_hash, event_data[1])
                       ELSE prev_hash
  IN  constant_time_eq(extend_hash_chain(expected_hash, iterations), next_hash)

\* ------------------------------------------------------------------------
\* PoH engine (poh/src/core.rs)
\* ------------------------------------------------------------------------
\* Bug variant: the slot is derived from the incremented counter.
core_slot_index_post(tick_index) == (tick_index + 1) \div DEFAULT_TICKS_PER_SLOT

\* Bug variant: the slot is derived from the clock, one slot a millisecond.
core_slot_index_clock(tick_index) == now

core_slot_index(tick_index) == tick_index \div DEFAULT_TICKS_PER_SLOT

core_epoch_index(slot_index) == slot_index \div DEFAULT_SLOTS_PER_EPOCH

\* PoH::new(seed)
PoHNew(s) ==
  /\ seed = s
  /\ current_hash = hash(s)
  /\ tick_count = 0
  /\ slot_count = 0
  /\ epoch_count = 0
  /\ now = 0
  /\ engine = "running"
  /\ records = <<>>

\* Bug variant: the record never carries the event.
record_event_dropped(event_data) == None

\* event_data.map(|d| d.to_vec())
record_event(event_data) == IF event_data = None THEN None ELSE Some(event_data[1])

\* The record core(event_data) builds, the clock reading elapsed_ms.
core_record(event_data, elapsed_ms) ==
  LET mixed == IF event_data # None
               THEN hash_with_data(current_hash, event_data[1])
               ELSE current_hash
      new_hash == extend_hash_chain(mixed, DEFAULT_HASHES_PER_TICK)
      tick_index == tick_count
      slot_index == core_slot_index(tick_index)
      epoch_index == core_epoch_index(slot_index)
  IN  [tick_index |-> tick_index,
       slot_index |-> slot_index,
       epoch_index |-> epoch_index,
       hash |-> new_hash,
       timestamp_ms |-> elapsed_ms,
       event |-> record_event(event_data)]

\* u64::checked_add: None on overflow.
checked_add(a, b) == IF a > U64Max - b THEN None ELSE Some(a + b)

\* Bug variant: the tick counter wraps to 0.
tick_count_wrapping(count) == Some((count + 1) % (U64Max + 1))

\* self.tick_count.checked_add(1): None makes expect panic.
tick_count_incremented(count) == checked_add(count, 1)

\* PoH::core: the engine's fields after the call; the record is appended to
\* `records` when the call returns (it does not when checked_add panics).
core(event_data, elapsed_ms) ==
  LET record == core_record(event_data, elapsed_ms)
      incremented == tick_count_incremented(tick_count)
      new_tick_count == IF incremented = None THEN tick_count ELSE incremented[1]
      bumped_slot == IF new_tick_count % DEFAULT_TICKS_PER_SLOT = 0
                     THEN slot_count + 1 ELSE slot_count
      rollover == /\ record.slot_index % DEFAULT_SLOTS_PER_EPOCH = 0
                  /\ new_tick_count % DEFAULT_TICKS_PER_SLOT = 0
  IN  /\ engine = "running"
      /\ current_hash' = record.hash
      /\ now' = elapsed_ms
      /\ UNCHANGED seed
      /\ IF incremented = None
         THEN \* expect("tick_count overflow")
              /\ engine' = "panicked"
              /\ UNCHANGED <<tick_count, slot_count, epoch_count, records>>
         ELSE /\ tick_count' = new_tick_count
              /\ slot_count' = IF rollover THEN 0 ELSE bumped_slot
              /\ epoch_count' = IF rollover THEN record.epoch_index ELSE epoch_count
              /\ engine' = engine
              /\ records' = Append(records, record)

\* ------------------------------------------------------------------------
\* Verifier (poh/src/core.rs)
\* ------------------------------------------------------------------------
saturating_add(a, b) == IF a >= U64Max - b THEN U64Max ELSE a + b

\* Bug variant: only the order of the tick indices is checked.
tick_index_valid_order(prev, curr) == curr.tick_index > prev.tick_index

tick_index_valid(prev, curr) == curr.tick_index = saturating_add(prev.tick_index, 1)

slot_index_valid(curr) == curr.slot_index = curr.tick_index \div DEFAULT_TICKS_PER_SLOT

epoch_valid(curr) ==
  curr.epoch_index = curr.tick_index \div (DEFAULT_TICKS_PER_SLOT * DEFAULT_SLOTS_PER_EPOCH)

\* One pass of the loop over records.windows(2).
window_valid(prev, curr) ==
  /\ verify_hash_chain(prev.hash, curr.hash, DEFAULT_HASHES_PER_TICK, curr.event)
  /\ tick_index_valid(prev, curr)
  /\ slot_index_valid(curr)
  /\ epoch_valid(curr)

\* Bug variant: the indices of the first record are checked as well.
verify_records_first_checked(recs) ==
  IF recs = <<>> THEN FALSE
  ELSE /\ slot_index_valid(recs[1])
       /\ epoch_valid(recs[1])
       /\ \A w \in 1..(Len(recs) - 1) : window_valid(recs[w], recs[w + 1])

\* Bug variant: an empty slice verifies vacuously.
verify_records_vacuous(recs) ==
  \A w \in 1..(Len(recs) - 1) : window_valid(recs[w], recs[w + 1])

verify_records(recs) ==
  IF recs = <<>> THEN FALSE
  ELSE \A w \in 1..(Len(recs) - 1) : window_valid(recs[w], recs[w + 1])

\* ------------------------------------------------------------------------
\* Specification Spec: one engine driven by next_tick / insert_event from
\* its creation, the monotonic clock read at every tick.
\* ------------------------------------------------------------------------
\* Bug variant: a clock that can be set back.
ClockReadingsAny == 0..MaxNow

ClockReadings == {t \in now..(now + 1) : t <= MaxNow}

\* No second engine.
TwinIdle ==
  /\ twin_phase = "none"
  /\ twin_calls = <<>>
  /\ twin_records = <<>>

\* No call of extend_hash_chain is being followed.
ChainIdle ==
  /\ ec_pc = "idle"
  /\ ec_prev_hash = <<>>
  /\ ec_iterations = 0
  /\ ec_current_hash = <<>>
  /\ ec_i = 0
  /\ ec_applied = 0

\* No other call has been made.
FnIdle ==
  /\ fn_name = "none"
  /\ fn_args = <<>>
  /\ fn_result = <<>>

\* No thread is followed through the pool's mutexes.
LockIdle ==
  /\ lk_pc = <<>>
  /\ lk_owner = <<>>

\* The components outside the engine, the scheduler, the manager and the
\* pool are idle.
CallsIdle == TwinIdle /\ ChainIdle /\ FnIdle /\ LockIdle

\* No call of verify_timestamps has been made.
VtIdle ==
  /\ vt_records = <<>>
  /\ vt_log_failures = FALSE
  /\ vt_result = <<>>

\* No pool has been created.
PoolIdle ==
  /\ pool_size = 0
  /\ job_queue = <<>>
  /\ shutdown = FALSE
  /\ active_workers = 0
  /\ completed_jobs = 0
  /\ stats = [total_jobs_completed |-> 0, failed_jobs |-> 0,
              peak_queue_size |-> 0, peak_active_workers |-> 0]
  /\ wk = <<>>
  /\ jobs = <<>>
  /\ main_pc = "idle"
  /\ main_result = "ok"
  /\ wfc_submitted = 0
  /\ join_stats = <<>>
  /\ aux_pc = "idle"
  /\ aux_result = "none"
  /\ done_flag = FALSE
  /\ result_slot = <<>>

\* No manager has been created.
MgrIdle ==
  /\ mgr_max_threads = 0
  /\ mgr_name_len = 0
  /\ running_count = 0
  /\ id_count = 0
  /\ mgr_threads = <<>>
  /\ handles = {}
  /\ caller = <<>>

\* No scheduler has been started.
SchedIdle ==
  /\ max_ticks = 0
  /\ worker_pc = "idle"
  /\ tick_i = 0
  /\ records_batch = <<>>
  /\ next_tick_target_us = 0
  /\ channel = <<>>
  /\ rx_alive = FALSE
  /\ received = <<>>
  /\ rx_disconnected = FALSE
  /\ ticks_after_drop = 0

Init == SchedIdle /\ MgrIdle /\ PoolIdle /\ VtIdle /\ CallsIdle /\ \E s \in Seeds : PoHNew(s)

NextTick ==
  /\ tick_count < MaxTicks
  /\ \E t \in ClockReadings : core(None, t)
  /\ UNCHANGED <<schedVars, mgrVars, poolVars, vtVars, twinVars, chainVars, fnVars, lockVars>>

InsertEvent ==
  /\ tick_count < MaxTicks
  /\ \E data \in EventData, t \in ClockReadings : core(Some(data), t)
  /\ UNCHANGED <<schedVars, mgrVars, poolVars, vtVars, twinVars, chainVars, fnVars, lockVars>>

Next == NextTick \/ InsertEvent

Spec == Init /\ [][Next]_vars

\* ------------------------------------------------------------------------
\* Specification SpecSlots: a run of one engine across the first slot
\* boundary, with at most SlotRunEvents stamped events.
\* ------------------------------------------------------------------------
EventCount(recs) == Cardinality({i \in 1..Len(recs) : recs[i].event # None})

SlotRunSeed == <<1>>
SlotRunData == {<<0, 1>>}

SlotsInit == SchedIdle /\ MgrIdle /\ PoolIdle /\ VtIdle /\ CallsIdle /\ PoHNew(SlotRunSeed)

SlotRunTick ==
  /\ tick_count < SlotRunTicks
  /\ core(None, now)
  /\ UNCHANGED <<schedVars, mgrVars, poolVars, vtVars, twinVars, chainVars, fnVars, lockVars>>

SlotRunEvent ==
  /\ tick_count < SlotRunTicks
  /\ EventCount(records) < SlotRunEvents
  /\ \E data \in SlotRunData : core(Some(data), now)
  /\ UNCHANGED <<schedVars, mgrVars, poolVars, vtVars, twinVars, chainVars, fnVars, lockVars>>

SlotsNext == SlotRunTick \/ SlotRunEvent

SpecSlots == SlotsInit /\ [][SlotsNext]_vars

\* ------------------------------------------------------------------------
\* Tick scheduler (poh/src/thread.rs)
\* ------------------------------------------------------------------------
\* The decimal digits of n as ASCII bytes.
RECURSIVE Decimal(_)
Decimal(n) == IF n < 10 THEN <<48 + n>> ELSE Append(Decimal(n \div 10), 48 + (n % 10))

\* format!("Event at tick {}.", i).as_bytes()
EventAtTick(i) ==
  <<69, 118, 101, 110, 116, 32, 97, 116, 32, 116, 105, 99, 107, 32>> \o Decimal(i) \o <<46>>

\* records_batch.len() >= DEFAULT_BATCH_SIZE
batch_full(batch) == Len(batch) >= BatchSize

\* Bug variant: the batch is drained from its back.
drain_next_back(batch) == batch[Len(batch)]

\* batch.drain(..) yields the records front to back.
drain_next(batch) == Head(batch)

drain_rest(batch) == Tail(batch)

\* Bug variant: the worker ends without sending the residual batch.
after_loop_no_flush == "done"

\* Where the worker goes when the for loop ends or breaks:
\* let _ = send_batch(&tx, &mut records_batch).
after_loop == "flush"

\* thread(seed, max_ticks): the channel is created and the worker spawned;
\* the worker has created its engine and enters the loop.
thread(s, m) ==
  /\ PoHNew(s)
  /\ max_ticks = m
  /\ worker_pc = IF m > 0 THEN "tick" ELSE after_loop
  /\ tick_i = 0
  /\ records_batch = <<>>
  /\ next_tick_target_us = DEFAULT_US_PER_TICK
  /\ channel = <<>>
  /\ rx_alive = TRUE
  /\ received = <<>>
  /\ rx_disconnected = FALSE
  /\ ticks_after_drop = 0

\* One iteration's call of the engine and records_batch.push(record).
WorkerTick ==
  /\ worker_pc = "tick"
  /\ IF tick_i % 10 = 0
     THEN core(Some(EventAtTick(tick_i)), now)
     ELSE core(None, now)
  /\ records_batch' = Append(records_batch, records'[Len(records')])
  /\ worker_pc' = IF batch_full(records_batch') THEN "send" ELSE "pace"
  /\ ticks_after_drop' = IF rx_alive THEN 0 ELSE ticks_after_drop + 1
  /\ UNCHANGED <<mgrVars, poolVars, vtVars, twinVars, chainVars, fnVars, lockVars, max_ticks, tick_i, next_tick_target_us, channel, rx_alive,
                 received, rx_disconnected>>

\* One tx.send(record)? of send_batch: it blocks while the channel is full
\* and the receiver lives; on a dropped receiver it fails, the drain drops
\* the rest of the batch and the caller leaves the loop.
SendStep(on_sent_all, on_error) ==
  /\ records_batch # <<>>
  /\ \/ /\ rx_alive
        /\ Len(channel) < ChannelCapacity
        /\ channel' = Append(channel, drain_next(records_batch))
        /\ records_batch' = drain_rest(records_batch)
        /\ worker_pc' = IF records_batch' = <<>> THEN on_sent_all ELSE worker_pc
     \/ /\ ~rx_alive
        /\ channel' = channel
        /\ records_batch' = <<>>
        /\ worker_pc' = on_error
  /\ UNCHANGED <<mgrVars, poolVars, vtVars, twinVars, chainVars, fnVars, lockVars, ticks_after_drop, pohVars, max_ticks, tick_i, next_tick_target_us, rx_alive,
                 received, rx_disconnected>>

\* A loop that carries on after a failed send.
WorkerSendIgnoresError ==
  /\ worker_pc = "send"
  /\ SendStep("pace", "pace")

\* send_batch inside the loop; a failure breaks out of the loop.
WorkerSend ==
  /\ worker_pc = "send"
  /\ SendStep("pace", after_loop)

\* The pacing of one iteration: the worker waits until the target time has
\* passed, moves the target and takes the next i.
WorkerPace ==
  /\ worker_pc = "pace"
  /\ now' = IF now < next_tick_target_us \div 1000
            THEN next_tick_target_us \div 1000 ELSE now
  /\ next_tick_target_us' = next_tick_target_us + DEFAULT_US_PER_TICK
  /\ tick_i' = tick_i + 1
  /\ worker_pc' = IF tick_i + 1 < max_ticks THEN "tick" ELSE after_loop
  /\ UNCHANGED <<mgrVars, poolVars, vtVars, twinVars, chainVars, fnVars, lockVars, ticks_after_drop, seed, current_hash, tick_count, slot_count, epoch_count, engine,
                 records, max_ticks, records_batch, channel, rx_alive, received,
                 rx_disconnected>>

\* send_batch after the loop, then the closure returns and tx is dropped.
WorkerFlush ==
  /\ worker_pc = "flush"
  /\ IF records_batch = <<>>
     THEN /\ worker_pc' = "done"
          /\ UNCHANGED <<mgrVars, poolVars, vtVars, twinVars, chainVars, fnVars, lockVars, ticks_after_drop, pohVars, max_ticks, tick_i, records_batch,
                         next_tick_target_us, channel, rx_alive, received,
                         rx_disconnected>>
     ELSE SendStep("done", "done")

Worker == WorkerTick \/ WorkerSend \/ WorkerPace \/ WorkerFlush

\* rx.recv() returning a record.
Recv ==
  /\ rx_alive
  /\ channel # <<>>
  /\ received' = Append(received, Head(channel))
  /\ channel' = Tail(channel)
  /\ UNCHANGED <<mgrVars, poolVars, vtVars, twinVars, chainVars, fnVars, lockVars, ticks_after_drop, pohVars, max_ticks, worker_pc, tick_i, records_batch,
                 next_tick_target_us, rx_alive, rx_disconnected>>

\* rx.recv() returning Err: the sender is gone and the buffer is empty.
RecvDisconnected ==
  /\ rx_alive
  /\ ~rx_disconnected
  /\ channel = <<>>
  /\ worker_pc = "done"
  /\ rx_disconnected' = TRUE
  /\ UNCHANGED <<mgrVars, poolVars, vtVars, twinVars, chainVars, fnVars, lockVars, ticks_after_drop, pohVars, max_ticks, worker_pc, tick_i, records_batch,
                 next_tick_target_us, channel, rx_alive, received>>

\* The receiver is dropped; what the channel buffers is dropped with it.
RxDrop ==
  /\ rx_alive
  /\ ~rx_disconnected
  /\ rx_alive' = FALSE
  /\ channel' = <<>>
  /\ UNCHANGED <<mgrVars, poolVars, vtVars, twinVars, chainVars, fnVars, lockVars, ticks_after_drop, pohVars, max_ticks, worker_pc, tick_i, records_batch,
                 next_tick_target_us, received, rx_disconnected>>

SchedSeed == <<0>>

SchedInit == MgrIdle /\ PoolIdle /\ VtIdle /\ CallsIdle /\ \E m \in 0..MaxMaxTicks : thread(SchedSeed, m)

\* Specification SpecSched: the worker, a receiver that receives at any pace
\* and may be dropped at any time.
SchedNext == Worker \/ Recv \/ RecvDisconnected \/ RxDrop

SpecSched == SchedInit /\ [][SchedNext]_vars

\* Specification SpecSchedLive: the receiver is never dropped and keeps
\* receiving; the worker thread keeps running.
SchedLiveNext == Worker \/ Recv \/ RecvDisconnected

SpecSchedLive ==
  /\ SchedInit
  /\ [][SchedLiveNext]_vars
  /\ WF_vars(Worker)
  /\ WF_vars(Recv)
  /\ WF_vars(RecvDisconnected)

\* Specification SpecSchedDrop: the receiver receives at any pace and may
\* be dropped at any time; the worker thread keeps running.
SpecSchedDrop ==
  /\ SchedInit
  /\ [][SchedNext]_vars
  /\ WF_vars(Worker)

\* ------------------------------------------------------------------------
\* Thread manager (thread/src/native/manager.rs, handle.rs)
\* ------------------------------------------------------------------------
Callers == 1..MaxCallers

\* The number of decimal digits of n.
RECURSIVE DigitCount(_)
DigitCount(n) == IF n < 10 THEN 1 ELSE 1 + DigitCount(n \div 10)

name_too_long(len) == len >= MAX_THREAD_NAME_CHARS

\* Manager::new(name, config) with a valid configuration.
ManagerNew(name_len, max) ==
  /\ ~name_too_long(name_len)
  /\ max > 0
  /\ mgr_max_threads = max
  /\ mgr_name_len = name_len
  /\ running_count = 0
  /\ id_count = 0
  /\ mgr_threads = <<>>
  /\ handles = {}
  /\ caller = [c \in Callers |-> [pc |-> "idle", tid |-> 0, result |-> "none"]]

\* A check that lets one thread too many through.
spawn_named_check_above(c, len) ==
  IF name_too_long(len)
  THEN caller' = [caller EXCEPT ![c].result = "err_name"]
  ELSE IF running_count > mgr_max_threads
  THEN caller' = [caller EXCEPT ![c].result = "err_full"]
  ELSE caller' = [caller EXCEPT ![c].pc = "checked", ![c].result = "none"]

\* spawn_named up to its check of running_count: the name cap, then
\* running_count.load(Acquire) against max_threads.
spawn_named_check(c, len) ==
  IF name_too_long(len)
  THEN caller' = [caller EXCEPT ![c].result = "err_name"]
  ELSE IF running_count >= mgr_max_threads
  THEN caller' = [caller EXCEPT ![c].result = "err_full"]
  ELSE caller' = [caller EXCEPT ![c].pc = "checked", ![c].result = "none"]

\* spawn: the name is "<manager name>-<n>", n = id_count.fetch_add(1).
MgrSpawn ==
  \E c \in Callers :
    /\ caller[c].pc = "idle"
    /\ Len(mgr_threads) < MaxLaunched
    /\ id_count < MaxSpawnCalls
    /\ id_count' = id_count + 1
    /\ spawn_named_check(c, mgr_name_len + 1 + DigitCount(id_count))
    /\ UNCHANGED <<mgr_max_threads, mgr_name_len, running_count, mgr_threads, handles>>
    /\ UNCHANGED <<pohVars, schedVars, poolVars, vtVars, twinVars, chainVars, fnVars, lockVars>>

MgrSpawnNamed ==
  \E c \in Callers :
    /\ caller[c].pc = "idle"
    /\ Len(mgr_threads) < MaxLaunched
    /\ \E len \in {MAX_THREAD_NAME_CHARS - 1, MAX_THREAD_NAME_CHARS} :
         spawn_named_check(c, len)
    /\ UNCHANGED <<mgr_max_threads, mgr_name_len, running_count, id_count,
                   mgr_threads, handles>>
    /\ UNCHANGED <<pohVars, schedVars, poolVars, vtVars, twinVars, chainVars, fnVars, lockVars>>

\* std_thread::Builder::spawn: the worker thread exists from here on.
MgrLaunch ==
  \E c \in Callers :
    /\ caller[c].pc = "checked"
    /\ mgr_threads' = Append(mgr_threads, "spawned")
    /\ caller' = [caller EXCEPT ![c].pc = "launched", ![c].tid = Len(mgr_threads) + 1]
    /\ UNCHANGED <<mgr_max_threads, mgr_name_len, running_count, id_count, handles>>
    /\ UNCHANGED <<pohVars, schedVars, poolVars, vtVars, twinVars, chainVars, fnVars, lockVars>>

\* running_count.fetch_add(1, Release) and the return of the JoinHandle.
MgrCount ==
  \E c \in Callers :
    /\ caller[c].pc = "launched"
    /\ running_count' = running_count + 1
    /\ handles' = handles \cup {caller[c].tid}
    /\ caller' = [caller EXCEPT ![c].pc = "idle", ![c].tid = 0, ![c].result = "ok"]
    /\ UNCHANGED <<mgr_max_threads, mgr_name_len, id_count, mgr_threads>>
    /\ UNCHANGED <<pohVars, schedVars, poolVars, vtVars, twinVars, chainVars, fnVars, lockVars>>

\* The new thread calls apply_policy: it succeeds, or it fails and the
\* warning is printed.
MgrPolicy ==
  \E t \in 1..Len(mgr_threads) :
    /\ mgr_threads[t] = "spawned"
    /\ \E outcome \in {"policy_ok", "policy_failed"} :
         mgr_threads' = [mgr_threads EXCEPT ![t] = outcome]
    /\ UNCHANGED <<mgr_max_threads, mgr_name_len, running_count, id_count, handles, caller>>
    /\ UNCHANGED <<pohVars, schedVars, poolVars, vtVars, twinVars, chainVars, fnVars, lockVars>>

\* Bug variant: a failed policy ends the thread body before f().
after_policy_strict(state) == state = "policy_ok"

\* unwrap_or_else has returned, whatever apply_policy returned.
after_policy(state) == state \in {"policy_ok", "policy_failed"}

\* The thread calls f().
MgrClosure ==
  \E t \in 1..Len(mgr_threads) :
    /\ after_policy(mgr_threads[t])
    /\ mgr_threads' = [mgr_threads EXCEPT ![t] = "running"]
    /\ UNCHANGED <<mgr_max_threads, mgr_name_len, running_count, id_count, handles, caller>>
    /\ UNCHANGED <<pohVars, schedVars, poolVars, vtVars, twinVars, chainVars, fnVars, lockVars>>

\* The worker's closure returns or panics.
MgrThreadEnds ==
  \E t \in 1..Len(mgr_threads) :
    /\ mgr_threads[t] = "running"
    /\ \E how \in {"finished", "panicked"} :
         mgr_threads' = [mgr_threads EXCEPT ![t] = how]
    /\ UNCHANGED <<mgr_max_threads, mgr_name_len, running_count, id_count, handles, caller>>
    /\ UNCHANGED <<pohVars, schedVars, poolVars, vtVars, twinVars, chainVars, fnVars, lockVars>>

\* A drop that decrements again after join.
drop_decrements(count) == count - 1

\* Drop for a handle that was joined: std_handle is None, nothing is done.
drop_after_join(count) == count

\* JoinHandle::join: jh.join() returns once the thread has ended, then
\* running_count.fetch_sub(1, Release); the handle is dropped on return.
MgrJoin ==
  \E c \in Callers, t \in 1..Len(mgr_threads) :
    /\ caller[c].pc = "idle"
    /\ t \in handles
    /\ mgr_threads[t] \in {"finished", "panicked"}
    /\ handles' = handles \ {t}
    /\ running_count' = drop_after_join(running_count - 1)
    /\ caller' = [caller EXCEPT ![c].result =
                    IF mgr_threads[t] = "panicked" THEN "join_err" ELSE "join_ok"]
    /\ mgr_threads' = [mgr_threads EXCEPT ![t] = "joined"]
    /\ UNCHANGED <<mgr_max_threads, mgr_name_len, id_count>>
    /\ UNCHANGED <<pohVars, schedVars, poolVars, vtVars, twinVars, chainVars, fnVars, lockVars>>

\* Drop for a handle that was not joined: join_inner waits for the thread,
\* decrements running_count and the result is ignored.
MgrDrop ==
  \E c \in Callers, t \in 1..Len(mgr_threads) :
    /\ caller[c].pc = "idle"
    /\ t \in handles
    /\ mgr_threads[t] \in {"finished", "panicked"}
    /\ handles' = handles \ {t}
    /\ running_count' = running_count - 1
    /\ caller' = [caller EXCEPT ![c].result = "dropped"]
    /\ mgr_threads' = [mgr_threads EXCEPT ![t] = "joined"]
    /\ UNCHANGED <<mgr_max_threads, mgr_name_len, id_count>>
    /\ UNCHANGED <<pohVars, schedVars, poolVars, vtVars, twinVars, chainVars, fnVars, lockVars>>

\* The workers launched and not yet joined.
LiveThreads == {t \in 1..Len(mgr_threads) : mgr_threads[t] # "joined"}

MgrNameLens == {10, MAX_THREAD_NAME_CHARS - 2}

MgrInit ==
  /\ SchedIdle
  /\ VtIdle /\ CallsIdle
  /\ PoolIdle
  /\ PoHNew(<<>>)
  /\ \E len \in MgrNameLens, max \in 1..MaxMaxThreads : ManagerNew(len, max)

\* Specification SpecMgr: MaxCallers threads share one manager (clones of
\* it) and call spawn, spawn_named and join, or drop a handle, concurrently.
MgrNext ==
  \/ MgrSpawn \/ MgrSpawnNamed \/ MgrLaunch \/ MgrCount \/ MgrThreadEnds
  \/ MgrJoin \/ MgrDrop \/ MgrPolicy \/ MgrClosure

SpecMgr == MgrInit /\ [][MgrNext]_vars

\* The same, every spawned thread being scheduled.
SpecMgrLive ==
  MgrInit /\ [][MgrNext]_vars /\ WF_vars(MgrPolicy) /\ WF_vars(MgrClosure)

\* C9: under any interleaving of concurrent spawn / spawn_named and join
\* calls on one manager, the number of workers spawned and not yet joined,
\* and running_count, never exceed max_threads.
C9_NeverAboveMaxThreads ==
  /\ running_count <= mgr_max_threads
  /\ Cardinality(LiveThreads) <= mgr_max_threads

\* ------------------------------------------------------------------------
\* The thread pool (thread/src/native/pool.rs)
\* ------------------------------------------------------------------------
Workers == 1..pool_size

\* What a submitted closure does: return Ok, return Err, or panic.
JobKinds == {"ok", "err", "panic"}

Max(a, b) == IF a >= b THEN a ELSE b

\* ThreadPool::new with max_threads = n: a manager, and n workers launched
\* through Manager::spawn_named as "worker-<id>".  second: a second thread
\* borrows the pool and calls execute_wait on it.
PoolNew(n, second) ==
  /\ mgr_max_threads = n
  /\ mgr_name_len = 4
  /\ running_count = n
  /\ id_count = 0
  /\ mgr_threads = [t \in 1..n |-> "running"]
  /\ handles = 1..n
  /\ caller = <<>>
  /\ pool_size = n
  /\ job_queue = <<>>
  /\ shutdown = FALSE
  /\ active_workers = 0
  /\ completed_jobs = 0
  /\ stats = [total_jobs_completed |-> 0, failed_jobs |-> 0,
              peak_queue_size |-> 0, peak_active_workers |-> 0]
  /\ wk = [w \in 1..n |-> [pc |-> "top", job |-> 0, active_count |-> 0,
                           result |-> "none"]]
  /\ jobs = <<>>
  /\ main_pc = "idle"
  /\ main_result = "ok"
  /\ wfc_submitted = 0
  /\ join_stats = <<>>
  /\ aux_pc = IF second THEN "idle" ELSE "absent"
  /\ aux_result = "none"
  /\ done_flag = FALSE
  /\ result_slot = <<>>

\* A worker that goes round its loop instead of leaving it.
worker_stays(w) ==
  /\ wk' = [wk EXCEPT ![w].pc = "top"]
  /\ UNCHANGED mgr_threads

\* The worker's closure returns: the loop was left.
worker_exit(w) ==
  /\ wk' = [wk EXCEPT ![w].pc = "exit"]
  /\ mgr_threads' = [mgr_threads EXCEPT ![w] = "finished"]

\* while !shutdown.load(Acquire)
PoolWorkerTop ==
  \E w \in Workers :
    /\ wk[w].pc = "top"
    /\ IF shutdown
       THEN worker_exit(w)
       ELSE wk' = [wk EXCEPT ![w].pc = "lock"] /\ UNCHANGED mgr_threads
    /\ UNCHANGED <<pool_size, job_queue, shutdown, active_workers,
                   completed_jobs, stats, jobs, main_pc, main_result, wfc_submitted,
                   join_stats, aux_pc, aux_result, done_flag, result_slot>>
    /\ UNCHANGED <<mgr_max_threads, mgr_name_len, running_count, id_count, handles, caller>>
    /\ UNCHANGED <<pohVars, schedVars, vtVars, twinVars, chainVars, fnVars, lockVars>>

\* Bug variant: the job is taken from the back of the queue.
pop_back(queue) ==
  [job |-> queue[Len(queue)], rest |-> SubSeq(queue, 1, Len(queue) - 1)]

\* queue.pop_front() on a queue that is not empty.
pop_front(queue) == [job |-> Head(queue), rest |-> Tail(queue)]

\* With the queue lock held: leave the loop when shutting down with an
\* empty queue, pop the front job when there is one, else go round.
take_job(w) ==
  IF shutdown /\ job_queue = <<>>
  THEN worker_exit(w) /\ UNCHANGED <<job_queue, jobs>>
  ELSE IF job_queue # <<>>
  THEN /\ wk' = [wk EXCEPT ![w].pc = "got", ![w].job = pop_front(job_queue).job]
       /\ job_queue' = pop_front(job_queue).rest
       /\ jobs' = [jobs EXCEPT ![pop_front(job_queue).job].state = "taken"]
       /\ UNCHANGED mgr_threads
  ELSE /\ wk' = [wk EXCEPT ![w].pc = "top"]
       /\ UNCHANGED <<job_queue, jobs, mgr_threads>>

\* job_queue.lock(): record the peak queue size; on an empty queue start a
\* timed wait on the condvar (which releases the lock), else take a job.
PoolWorkerLock ==
  \E w \in Workers :
    /\ wk[w].pc = "lock"
    /\ stats' = [stats EXCEPT !.peak_queue_size = Max(@, Len(job_queue))]
    /\ IF job_queue = <<>>
       THEN /\ wk' = [wk EXCEPT ![w].pc = "wait"]
            /\ UNCHANGED <<job_queue, jobs, mgr_threads>>
       ELSE take_job(w)
    /\ UNCHANGED <<pool_size, shutdown, active_workers, completed_jobs,
                   main_pc, main_result, wfc_submitted, join_stats, aux_pc,
                   aux_result, done_flag, result_slot>>
    /\ UNCHANGED <<mgr_max_threads, mgr_name_len, running_count, id_count, handles, caller>>
    /\ UNCHANGED <<pohVars, schedVars, vtVars, twinVars, chainVars, fnVars, lockVars>>

\* signal.wait_timeout returns, by a notification, spuriously or by the
\* timeout, with the lock held again.
PoolWorkerWake ==
  \E w \in Workers, timed_out \in BOOLEAN :
    /\ wk[w].pc = "wait"
    /\ IF timed_out /\ job_queue = <<>>
       THEN /\ wk' = [wk EXCEPT ![w].pc = "top"]
            /\ UNCHANGED <<job_queue, jobs, mgr_threads>>
       ELSE take_job(w)
    /\ UNCHANGED <<pool_size, shutdown, active_workers, completed_jobs,
                   stats, main_pc, main_result, wfc_submitted, join_stats, aux_pc,
                   aux_result, done_flag, result_slot>>
    /\ UNCHANGED <<mgr_max_threads, mgr_name_len, running_count, id_count, handles, caller>>
    /\ UNCHANGED <<pohVars, schedVars, vtVars, twinVars, chainVars, fnVars, lockVars>>

\* active_workers.fetch_add(1, AcqRel); active_count is the new value.
PoolWorkerBegin ==
  \E w \in Workers :
    /\ wk[w].pc = "got"
    /\ active_workers' = active_workers + 1
    /\ wk' = [wk EXCEPT ![w].pc = "counted", ![w].active_count = active_workers + 1]
    /\ UNCHANGED <<pool_size, job_queue, shutdown, completed_jobs, stats,
                   jobs, main_pc, main_result, wfc_submitted, join_stats, aux_pc,
                   aux_result, done_flag, result_slot>>
    /\ UNCHANGED <<mgrVars, pohVars, schedVars, vtVars, twinVars, chainVars, fnVars, lockVars>>

\* Under the stats lock: peak_active_workers.max(active_count).
PoolWorkerPeak ==
  \E w \in Workers :
    /\ wk[w].pc = "counted"
    /\ stats' = [stats EXCEPT !.peak_active_workers = Max(@, wk[w].active_count)]
    /\ wk' = [wk EXCEPT ![w].pc = "running"]
    /\ jobs' = [jobs EXCEPT ![wk[w].job].state = "running"]
    /\ UNCHANGED <<pool_size, job_queue, shutdown, active_workers,
                   completed_jobs, main_pc, main_result, wfc_submitted, join_stats,
                   aux_pc, aux_result, done_flag, result_slot>>
    /\ UNCHANGED <<mgrVars, pohVars, schedVars, vtVars, twinVars, chainVars, fnVars, lockVars>>

\* The job runs under catch_unwind.  What the submitted closure does (kind)
\* is settled when it runs.  A job of execute / execute_batch yields what
\* its closure does.  The wrapper of execute_wait runs f, stores f's result
\* in the slot, sets done_flag and returns Ok(()); when f panics the
\* wrapper unwinds before it stores anything.
job_outcome(via, kind) ==
  IF via = "execute_wait" /\ kind # "panic" THEN "ok" ELSE kind

\* A caller that never hears the notification.
notify_lost(pc) == pc

\* done_signal.notify_all(): a caller blocked in done_signal.wait wakes.
notify_all(pc) == IF pc = "waiting" THEN "woken" ELSE pc

PoolWorkerRun ==
  \E w \in Workers, kind \in JobKinds :
    /\ wk[w].pc = "running"
    /\ wk' = [wk EXCEPT ![w].pc = "ran",
                        ![w].result = job_outcome(jobs[wk[w].job].via, kind)]
    /\ jobs' = [jobs EXCEPT ![wk[w].job].state = "done", ![wk[w].job].kind = kind]
    /\ IF jobs[wk[w].job].via = "execute_wait" /\ kind # "panic"
       THEN /\ result_slot' = <<kind>>
            /\ done_flag' = TRUE
            /\ aux_pc' = notify_all(aux_pc)
       ELSE UNCHANGED <<result_slot, done_flag, aux_pc>>
    /\ UNCHANGED <<pool_size, job_queue, shutdown, active_workers,
                   completed_jobs, stats, main_pc, main_result, wfc_submitted,
                   join_stats, aux_result>>
    /\ UNCHANGED <<mgrVars, pohVars, schedVars, vtVars, twinVars, chainVars, fnVars, lockVars>>

\* active_workers.fetch_sub(1, Release)
PoolWorkerDec ==
  \E w \in Workers :
    /\ wk[w].pc = "ran"
    /\ active_workers' = active_workers - 1
    /\ wk' = [wk EXCEPT ![w].pc = "dec"]
    /\ UNCHANGED <<pool_size, job_queue, shutdown, completed_jobs, stats,
                   jobs, main_pc, main_result, wfc_submitted, join_stats, aux_pc,
                   aux_result, done_flag, result_slot>>
    /\ UNCHANGED <<mgrVars, pohVars, schedVars, vtVars, twinVars, chainVars, fnVars, lockVars>>

\* completed_jobs.fetch_add(1, Release)
PoolWorkerCount ==
  \E w \in Workers :
    /\ wk[w].pc = "dec"
    /\ completed_jobs' = completed_jobs + 1
    /\ wk' = [wk EXCEPT ![w].pc = "cnt"]
    /\ UNCHANGED <<pool_size, job_queue, shutdown, active_workers, stats,
                   jobs, main_pc, main_result, wfc_submitted, join_stats, aux_pc,
                   aux_result, done_flag, result_slot>>
    /\ UNCHANGED <<mgrVars, pohVars, schedVars, vtVars, twinVars, chainVars, fnVars, lockVars>>

\* A worker that a panicking job takes down with it.
after_job_unwind(result) == IF result = "panic" THEN "exit" ELSE "top"

\* Where the worker goes after a job: catch_unwind keeps the panic inside
\* the job, and the loop goes round whatever the result.
after_job(result) == "top"

\* Under the stats lock: total_jobs_completed + 1, and failed_jobs + 1 when
\* the job panicked or returned Err; then round the loop.
PoolWorkerStat ==
  \E w \in Workers :
    /\ wk[w].pc = "cnt"
    /\ stats' = [stats EXCEPT
                   !.total_jobs_completed = @ + 1,
                   !.failed_jobs = IF wk[w].result # "ok" THEN @ + 1 ELSE @]
    /\ wk' = [wk EXCEPT ![w] = [pc |-> after_job(wk[w].result), job |-> 0,
                                active_count |-> 0, result |-> "none"]]
    /\ UNCHANGED <<pool_size, job_queue, shutdown, active_workers,
                   completed_jobs, jobs, main_pc, main_result, wfc_submitted,
                   join_stats, aux_pc, aux_result, done_flag, result_slot>>
    /\ UNCHANGED <<mgrVars, pohVars, schedVars, vtVars, twinVars, chainVars, fnVars, lockVars>>

\* queue.push_back of n jobs submitted through one call.
push_jobs(via, n) ==
  /\ jobs' = jobs \o [i \in 1..n |-> [kind |-> "unrun", via |-> via, state |-> "queued"]]
  /\ job_queue' = job_queue \o [i \in 1..n |-> Len(jobs) + i]

\* execute(f) on the thread that owns the pool.  Only this thread sets the
\* shutdown flag, so its check and its push are not interleaved with a
\* store to the flag.
Execute ==
    /\ main_pc = "idle"
    /\ Len(jobs) < MaxJobs
    /\ IF shutdown
       THEN main_result' = "err_shutdown" /\ UNCHANGED <<jobs, job_queue>>
       ELSE main_result' = "ok" /\ push_jobs("execute", 1)
    /\ UNCHANGED <<pool_size, shutdown, active_workers, completed_jobs,
                   stats, wk, main_pc, wfc_submitted, join_stats, aux_pc, aux_result,
                   done_flag, result_slot>>
    /\ UNCHANGED <<mgrVars, pohVars, schedVars, vtVars, twinVars, chainVars, fnVars, lockVars>>

\* An execute_batch that does not test the shutdown flag.
ExecuteBatchUnchecked ==
  \E n \in 0..2 :
    /\ main_pc = "idle"
    /\ Len(jobs) + n <= MaxJobs
    /\ main_result' = "ok"
    /\ push_jobs("execute", n)
    /\ UNCHANGED <<pool_size, shutdown, active_workers, completed_jobs,
                   stats, wk, main_pc, wfc_submitted, join_stats, aux_pc, aux_result,
                   done_flag, result_slot>>
    /\ UNCHANGED <<mgrVars, pohVars, schedVars, vtVars, twinVars, chainVars, fnVars, lockVars>>

\* execute_batch(jobs): all the jobs pushed under one lock acquisition.
ExecuteBatch ==
  \E n \in 0..2 :
    /\ main_pc = "idle"
    /\ Len(jobs) + n <= MaxJobs
    /\ IF shutdown
       THEN main_result' = "err_shutdown" /\ UNCHANGED <<jobs, job_queue>>
       ELSE main_result' = "ok" /\ push_jobs("execute", n)
    /\ UNCHANGED <<pool_size, shutdown, active_workers, completed_jobs,
                   stats, wk, main_pc, wfc_submitted, join_stats, aux_pc, aux_result,
                   done_flag, result_slot>>
    /\ UNCHANGED <<mgrVars, pohVars, schedVars, vtVars, twinVars, chainVars, fnVars, lockVars>>

\* shutdown(): store the flag, notify all.
Shutdown ==
  /\ main_pc = "idle"
  /\ shutdown' = TRUE
  /\ main_result' = "ok"
  /\ UNCHANGED <<pool_size, job_queue, active_workers, completed_jobs, stats, wk, jobs,
                 main_pc, wfc_submitted, join_stats, aux_pc, aux_result, done_flag,
                 result_slot>>
  /\ UNCHANGED <<mgrVars, pohVars, schedVars, vtVars, twinVars, chainVars, fnVars, lockVars>>

\* shutdown_now(&mut self), first half: store the flag.  The exclusive
\* borrow means no other thread is inside a call on the pool.
ShutdownNowStore ==
  /\ main_pc = "idle"
  /\ aux_pc \in {"idle", "absent"}
  /\ shutdown' = TRUE
  /\ main_pc' = "clear"
  /\ UNCHANGED <<pool_size, job_queue, active_workers, completed_jobs, stats, wk, jobs,
                 main_result, wfc_submitted, join_stats, aux_pc, aux_result, done_flag,
                 result_slot>>
  /\ UNCHANGED <<mgrVars, pohVars, schedVars, vtVars, twinVars, chainVars, fnVars, lockVars>>

\* A clear that leaves the queue as it is.
clear_none(queue) == queue

\* queue.clear()
clear_queue(queue) == <<>>

\* shutdown_now, second half: lock the queue, clear it, notify all.
ShutdownNowClear ==
  /\ main_pc = "clear"
  /\ job_queue' = clear_queue(job_queue)
  /\ jobs' = [j \in 1..Len(jobs) |->
                IF jobs[j].state = "queued" THEN [jobs[j] EXCEPT !.state = "discarded"]
                ELSE jobs[j]]
  /\ main_pc' = "idle"
  /\ main_result' = "now_ok"
  /\ UNCHANGED <<pool_size, shutdown, active_workers, completed_jobs, stats,
                 wk, wfc_submitted, join_stats, aux_pc, aux_result, done_flag,
                 result_slot>>
  /\ UNCHANGED <<mgrVars, pohVars, schedVars, vtVars, twinVars, chainVars, fnVars, lockVars>>

\* wait_for_completion(): bail when shutting down, else start polling.
WaitForCompletion ==
  /\ main_pc = "idle"
  /\ IF shutdown
     THEN main_result' = "err_shutdown" /\ UNCHANGED <<main_pc, wfc_submitted>>
     ELSE /\ main_pc' = "poll_queue"
          /\ UNCHANGED main_result
          /\ wfc_submitted' = Len(jobs)
  /\ UNCHANGED <<pool_size, job_queue, shutdown, active_workers,
                 completed_jobs, stats, wk, jobs, join_stats, aux_pc, aux_result,
                 done_flag, result_slot>>
  /\ UNCHANGED <<mgrVars, pohVars, schedVars, vtVars, twinVars, chainVars, fnVars, lockVars>>

\* The loop condition, left operand: queued_job_count() > 0 sleeps and
\* polls again.
WaitPollQueue ==
  /\ main_pc = "poll_queue"
  /\ job_queue = <<>>
  /\ main_pc' = "poll_active"
  /\ UNCHANGED <<pool_size, job_queue, shutdown, active_workers,
                 completed_jobs, stats, wk, jobs, main_result, wfc_submitted,
                 join_stats, aux_pc, aux_result, done_flag, result_slot>>
  /\ UNCHANGED <<mgrVars, pohVars, schedVars, vtVars, twinVars, chainVars, fnVars, lockVars>>

\* The loop condition, right operand: active_worker_count() > 0 sleeps and
\* polls again, else wait_for_completion returns Ok(()).
WaitPollActive ==
  /\ main_pc = "poll_active"
  /\ IF active_workers > 0
     THEN main_pc' = "poll_queue" /\ UNCHANGED main_result
     ELSE main_pc' = "idle" /\ main_result' = "wfc_ok"
  /\ UNCHANGED <<pool_size, job_queue, shutdown, active_workers,
                 completed_jobs, stats, wk, jobs, wfc_submitted, join_stats, aux_pc,
                 aux_result, done_flag, result_slot>>
  /\ UNCHANGED <<mgrVars, pohVars, schedVars, vtVars, twinVars, chainVars, fnVars, lockVars>>

\* join(mut self): self.shutdown() first.  The pool is moved into join, so
\* no other thread is inside a call on it.
JoinBegin ==
  /\ main_pc = "idle"
  /\ aux_pc \in {"idle", "absent"}
  /\ shutdown' = TRUE
  /\ main_pc' = "joining"
  /\ UNCHANGED <<pool_size, job_queue, active_workers, completed_jobs, stats, wk, jobs,
                 main_result, wfc_submitted, join_stats, aux_pc, aux_result, done_flag,
                 result_slot>>
  /\ UNCHANGED <<mgrVars, pohVars, schedVars, vtVars, twinVars, chainVars, fnVars, lockVars>>

\* for worker in self.workers.drain(..): worker.join() returns once that
\* worker has left its loop; JoinHandle::join_inner then decrements
\* running_count.
JoinWorker ==
  \E t \in handles :
    /\ main_pc = "joining"
    /\ \A u \in handles : t <= u
    /\ mgr_threads[t] = "finished"
    /\ mgr_threads' = [mgr_threads EXCEPT ![t] = "joined"]
    /\ handles' = handles \ {t}
    /\ running_count' = running_count - 1
    /\ UNCHANGED <<mgr_max_threads, mgr_name_len, id_count, caller>>
    /\ UNCHANGED <<poolVars, vtVars, twinVars, chainVars, fnVars, lockVars, pohVars, schedVars>>

\* join returns the statistics, cloned under the stats lock.
JoinReturn ==
  /\ main_pc = "joining"
  /\ handles = {}
  /\ join_stats' = <<stats>>
  /\ main_pc' = "joined"
  /\ main_result' = "ok"
  /\ UNCHANGED <<pool_size, job_queue, shutdown, active_workers,
                 completed_jobs, stats, wk, jobs, wfc_submitted, aux_pc, aux_result,
                 done_flag, result_slot>>
  /\ UNCHANGED <<mgrVars, pohVars, schedVars, vtVars, twinVars, chainVars, fnVars, lockVars>>

\* execute_wait(f) on a second thread that borrows the pool: its own check
\* of the shutdown flag.
ExecuteWaitCall ==
  /\ aux_pc = "idle"
  /\ main_pc \notin {"clear", "joining", "joined"}
  /\ Len(jobs) < MaxJobs
  /\ IF shutdown
     THEN aux_result' = "err_shutdown" /\ UNCHANGED aux_pc
     ELSE aux_pc' = "execute" /\ aux_result' = "none"
  /\ UNCHANGED <<pool_size, job_queue, shutdown, active_workers,
                 completed_jobs, stats, wk, jobs, main_pc, main_result, wfc_submitted,
                 join_stats, done_flag, result_slot>>
  /\ UNCHANGED <<mgrVars, pohVars, schedVars, vtVars, twinVars, chainVars, fnVars, lockVars>>

\* execute_wait: self.execute(wrapper)? checks the flag again.
ExecuteWaitExecute ==
  /\ aux_pc = "execute"
  /\ IF shutdown
     THEN aux_pc' = "idle" /\ aux_result' = "err_shutdown"
     ELSE aux_pc' = "push" /\ UNCHANGED aux_result
  /\ UNCHANGED <<pool_size, job_queue, shutdown, active_workers,
                 completed_jobs, stats, wk, jobs, main_pc, main_result, wfc_submitted,
                 join_stats, done_flag, result_slot>>
  /\ UNCHANGED <<mgrVars, pohVars, schedVars, vtVars, twinVars, chainVars, fnVars, lockVars>>

\* execute_wait: the wrapper is pushed and execute returns.
ExecuteWaitPush ==
    /\ aux_pc = "push"
    /\ push_jobs("execute_wait", 1)
    /\ done_flag' = FALSE
    /\ result_slot' = <<>>
    /\ aux_pc' = "lock"
    /\ UNCHANGED <<pool_size, shutdown, active_workers, completed_jobs,
                   stats, wk, main_pc, main_result, wfc_submitted, join_stats,
                   aux_result>>
    /\ UNCHANGED <<mgrVars, pohVars, schedVars, vtVars, twinVars, chainVars, fnVars, lockVars>>

\* execute_wait: with the result mutex held (after result.lock() or after
\* a wake-up), done_flag is unset: done_signal.wait(guard) releases the
\* mutex and blocks.
ExecuteWaitWait ==
  /\ aux_pc \in {"lock", "woken"}
  /\ ~done_flag
  /\ aux_pc' = "waiting"
  /\ UNCHANGED <<pool_size, job_queue, shutdown, active_workers,
                 completed_jobs, stats, wk, jobs, main_pc, main_result, wfc_submitted,
                 join_stats, aux_result, done_flag, result_slot>>
  /\ UNCHANGED <<mgrVars, pohVars, schedVars, vtVars, twinVars, chainVars, fnVars, lockVars>>

\* Condvar::wait may return without a notification.
ExecuteWaitSpurious ==
  /\ aux_pc = "waiting"
  /\ aux_pc' = "woken"
  /\ UNCHANGED <<pool_size, job_queue, shutdown, active_workers,
                 completed_jobs, stats, wk, jobs, main_pc, main_result, wfc_submitted,
                 join_stats, aux_result, done_flag, result_slot>>
  /\ UNCHANGED <<mgrVars, pohVars, schedVars, vtVars, twinVars, chainVars, fnVars, lockVars>>

\* execute_wait: with the result mutex held, done_flag is set: the loop
\* ends and guard.take().unwrap() is returned.  The slot and the flag
\* belong to this call and go with it.
ExecuteWaitReturn ==
  /\ aux_pc \in {"lock", "woken"}
  /\ done_flag
  /\ aux_result' = result_slot[1]
  /\ result_slot' = <<>>
  /\ done_flag' = FALSE
  /\ aux_pc' = "idle"
  /\ UNCHANGED <<pool_size, job_queue, shutdown, active_workers,
                 completed_jobs, stats, wk, jobs, main_pc, main_result, wfc_submitted,
                 join_stats>>
  /\ UNCHANGED <<mgrVars, pohVars, schedVars, vtVars, twinVars, chainVars, fnVars, lockVars>>

PoolInit ==
  /\ SchedIdle
  /\ VtIdle /\ CallsIdle
  /\ PoHNew(<<>>)
  /\ \E n \in 1..MaxWorkers, second \in BOOLEAN :
       /\ n + (IF second THEN 1 ELSE 0) <= MaxPoolThreads
       /\ PoolNew(n, second)

\* Specification SpecPool: one pool; its workers, the thread that owns it
\* and a second thread that calls execute_wait on it run concurrently.
PoolNext ==
  \/ PoolWorkerTop \/ PoolWorkerLock \/ PoolWorkerWake \/ PoolWorkerBegin
  \/ PoolWorkerPeak \/ PoolWorkerRun \/ PoolWorkerDec \/ PoolWorkerCount
  \/ PoolWorkerStat
  \/ Execute \/ ExecuteBatch \/ Shutdown \/ ShutdownNowStore \/ ShutdownNowClear
  \/ WaitForCompletion \/ WaitPollQueue \/ WaitPollActive
  \/ JoinBegin \/ JoinWorker \/ JoinReturn
  \/ ExecuteWaitCall \/ ExecuteWaitExecute \/ ExecuteWaitPush \/ ExecuteWaitWait
  \/ ExecuteWaitSpurious \/ ExecuteWaitReturn

SpecPool == PoolInit /\ [][PoolNext]_vars

\* C7: when wait_for_completion returns Ok on a pool that is not shut down,
\* every job submitted before the call has finished executing, and, no job
\* having been submitted since, stats.total_jobs_completed and
\* completed_job_count equal the number of jobs submitted.
C7_WaitForCompletionMeansDone ==
  (main_result = "wfc_ok" /\ ~shutdown) =>
    /\ \A j \in 1..wfc_submitted : jobs[j].state = "done"
    /\ (Len(jobs) = wfc_submitted =>
          /\ stats.total_jobs_completed = Len(jobs)
          /\ completed_jobs = Len(jobs))

\* C8: after a graceful shutdown (no job was discarded by shutdown_now),
\* join returns with an empty queue and with total_jobs_completed equal to
\* the number of jobs submitted: the workers drained the queue before they
\* left.
C8_GracefulShutdownDrains ==
  (main_pc = "joined" /\ \A j \in 1..Len(jobs) : jobs[j].state # "discarded") =>
    /\ job_queue = <<>>
    /\ join_stats[1].total_jobs_completed = Len(jobs)

\* C10: a caller blocked in execute_wait is released when the pool is torn
\* down: the caller is never left waiting on an unset done flag once every
\* worker has left its loop, when no thread remains that could set it.
C10_WaiterReleasedOnTeardown ==
  ~(/\ aux_pc = "waiting"
    /\ ~done_flag
    /\ \A w \in Workers : wk[w].pc = "exit")

\* The jobs whose closure has run, and those of them whose closure panicked
\* or returned an error.
DoneJobs == {j \in 1..Len(jobs) : jobs[j].state = "done"}
FailedClosures == {j \in DoneJobs : jobs[j].kind \in {"err", "panic"}}

\* C12: every job whose user closure panics or returns an error is counted
\* exactly once in failed_jobs and once in total_jobs_completed, whichever
\* operation submitted it, and a closure that returns Ok is never counted as
\* failed: once every job that ran has been accounted for, failed_jobs is
\* the number of closures that panicked or returned an error.
C12_FailedJobsCountClosures ==
  /\ stats.total_jobs_completed <= Cardinality(DoneJobs)
  /\ (stats.total_jobs_completed = Cardinality(DoneJobs) =>
        stats.failed_jobs = Cardinality(FailedClosures))

\* C13: from construction until shutdown the pool has exactly max_threads
\* live workers: ThreadPool::new spawned max_threads of them, and none has
\* left its loop, whatever its jobs did (panic, error or Ok).
C13_WorkersStayAlive ==
  ~shutdown =>
    /\ Len(wk) = mgr_max_threads
    /\ running_count = mgr_max_threads
    /\ \A w \in Workers : wk[w].pc # "exit" /\ mgr_threads[w] = "running"

\* A single worker ran a closure that panicked and one that returned an
\* error, and is back at the top of its loop on a running pool.
C13_Witness ==
  /\ ~shutdown
  /\ pool_size = 1
  /\ Len(jobs) >= 2
  /\ jobs[1].state = "done" /\ jobs[1].kind = "panic"
  /\ jobs[2].state = "done" /\ jobs[2].kind = "err"
  /\ stats.total_jobs_completed = 2
  /\ wk[1].pc = "top"

\* C15: once shutdown() or shutdown_now() has returned, every later
\* execute, execute_batch and execute_wait call returns an error and leaves
\* the job queue unchanged; the only job that can still arrive is the one of
\* an execute_wait call that passed its checks before the flag was set.
C15_SubmitAfterShutdownFails ==
  /\ [][(shutdown /\ (Execute \/ ExecuteBatch)) =>
          /\ main_result' = "err_shutdown"
          /\ job_queue' = job_queue /\ jobs' = jobs]_vars
  /\ [][(shutdown /\ ExecuteWaitCall) =>
          /\ aux_result' = "err_shutdown" /\ aux_pc' = "idle"
          /\ job_queue' = job_queue /\ jobs' = jobs]_vars
  /\ [][(shutdown /\ main_pc # "clear" /\ aux_pc # "push") =>
          /\ Len(jobs') = Len(jobs)
          /\ Len(job_queue') <= Len(job_queue)]_vars

\* Both callers were turned away after a shutdown that left a job queued.
C15_Witness ==
  /\ shutdown
  /\ main_result = "err_shutdown"
  /\ aux_result = "err_shutdown"
  /\ Len(job_queue) = 1

\* Specification SpecPoolLive: a pool whose worker threads and whose
\* second caller are scheduled fairly (every OS thread that can take a
\* step eventually does); the owner submits jobs and may shut the pool
\* down, gracefully or not, and join it.  A spurious wake-up is possible but owed to nobody.
PoolLiveInit ==
  /\ SchedIdle
  /\ VtIdle /\ CallsIdle
  /\ PoHNew(<<>>)
  /\ \E n \in 1..MaxWorkers :
       /\ n + 1 <= MaxPoolThreads
       /\ PoolNew(n, TRUE)

PoolLiveNext ==
  \/ PoolWorkerTop \/ PoolWorkerLock \/ PoolWorkerWake \/ PoolWorkerBegin
  \/ PoolWorkerPeak \/ PoolWorkerRun \/ PoolWorkerDec \/ PoolWorkerCount
  \/ PoolWorkerStat
  \/ Execute \/ Shutdown \/ ShutdownNowStore \/ ShutdownNowClear
  \/ JoinBegin \/ JoinWorker \/ JoinReturn
  \/ ExecuteWaitCall \/ ExecuteWaitExecute \/ ExecuteWaitPush \/ ExecuteWaitWait
  \/ ExecuteWaitSpurious \/ ExecuteWaitReturn

SpecPoolLive ==
  /\ PoolLiveInit
  /\ [][PoolLiveNext]_vars
  /\ WF_vars(PoolWorkerTop) /\ WF_vars(PoolWorkerLock) /\ WF_vars(PoolWorkerWake)
  /\ WF_vars(PoolWorkerBegin) /\ WF_vars(PoolWorkerPeak) /\ WF_vars(PoolWorkerRun)
  /\ WF_vars(PoolWorkerDec) /\ WF_vars(PoolWorkerCount) /\ WF_vars(PoolWorkerStat)
  /\ WF_vars(ExecuteWaitExecute) /\ WF_vars(ExecuteWaitPush)
  /\ WF_vars(ExecuteWaitWait) /\ WF_vars(ExecuteWaitReturn)
  /\ WF_vars(ShutdownNowClear) /\ WF_vars(JoinWorker) /\ WF_vars(JoinReturn)

\* The wrapper jobs of execute_wait, and the latest of them.
WaitJobs == {j \in 1..Len(jobs) : jobs[j].via = "execute_wait"}
LastWaitJob == CHOOSE j \in WaitJobs : \A k \in WaitJobs : k <= j

\* C11: on a running pool execute_wait eventually returns, with exactly
\* the closure's own result (Ok for a closure that returned Ok, the error
\* for one that returned Err), read only after the worker stored it: a set
\* done flag comes with a stored result, and a caller inside the call
\* leaves it unless the pool is shut down or the closure panicked.
C11_WaitReturnsOwnResult ==
  /\ [](aux_result \in {"ok", "err"} =>
          /\ WaitJobs # {}
          /\ jobs[LastWaitJob].state = "done"
          /\ jobs[LastWaitJob].kind = aux_result)
  /\ [](done_flag => result_slot # <<>>)
  /\ (aux_pc \in {"execute", "push", "lock", "waiting", "woken"})
       ~> (\/ aux_pc = "idle"
           \/ shutdown
           \/ \E j \in WaitJobs : jobs[j].kind = "panic")

\* The caller slept in done_signal.wait, was woken and got the closure's
\* error back.
C11_Witness ==
  /\ aux_pc = "idle"
  /\ aux_result = "err"
  /\ ~shutdown
  /\ jobs[LastWaitJob].kind = "err"

\* The state of job j, "none" before it is submitted.
JobState(j) == IF j <= Len(jobs) THEN jobs[j].state ELSE "none"

C16_JoinTerminates ==
  /\ [](main_pc = "joined" =>
          /\ \A w \in Workers : wk[w].pc = "exit" /\ mgr_threads[w] = "joined"
          /\ running_count = 0
          /\ join_stats[1].total_jobs_completed = Cardinality(DoneJobs))
  /\ shutdown ~> (\A w \in Workers : wk[w].pc = "exit")
  /\ (main_pc = "joining") ~> (main_pc = "joined" /\ running_count = 0)

\* join returned the statistics of a pool that had executed a job.
C16_Witness ==
  /\ main_pc = "joined"
  /\ running_count = 0
  /\ Cardinality(DoneJobs) >= 1
  /\ join_stats[1].total_jobs_completed = Cardinality(DoneJobs)

\* ------------------------------------------------------------------------
\* Claims about the engine and the verifier
\* ------------------------------------------------------------------------
\* n-fold iterated hashing of a digest: each application to the 32-byte
\* digest alone adds one to its count.
IterHash(h, n) == [h EXCEPT !.n = @ + n]

\* C1: for every seed and every non-empty sequence of next_tick /
\* insert_event calls on one engine from its creation, verify_records of
\* the records collected in emission order is true.
C1_EmittedRecordsVerify == records # <<>> => verify_records(records)

C1_Witness ==
  /\ Len(records) >= 3
  /\ \E i \in 2..Len(records) : records[i].event # None /\ records[i].event[1] # <<>>
  /\ \E i \in 2..Len(records) : records[i].event = None

\* C2: record[i].hash is HASHES_PER_TICK-fold iterated hashing of
\* record[i-1].hash when record[i] has no event, and of the single-pass
\* digest of record[i-1].hash || event when it has one; record[0] is
\* derived the same way from hash(seed).
C2_HashDerivation ==
  \A i \in 1..Len(records) :
    LET prev == IF i = 1 THEN Digest(<<>>, seed) ELSE records[i - 1].hash
        r == records[i]
        start == IF r.event = None THEN prev ELSE Digest(<<prev>>, r.event[1])
    IN  r.hash = IterHash(start, DEFAULT_HASHES_PER_TICK)

C2_Witness ==
  /\ Len(records) >= 3
  /\ records[1].event # None /\ records[1].event[1] # <<>>
  /\ records[2].event = None
  /\ records[3].event # None /\ records[3].event[1] # <<>>

\* C3: the i-th emitted record (from 0) has tick_index i, slot_index
\* tick_index / TICKS_PER_SLOT and epoch_index slot_index / SLOTS_PER_EPOCH,
\* so slot_index is 0 before tick TICKS_PER_SLOT and changes to 1 at it.
C3_RecordIndices ==
  \A i \in 1..Len(records) :
    LET r == records[i] IN
    /\ r.tick_index = i - 1
    /\ r.slot_index = r.tick_index \div DEFAULT_TICKS_PER_SLOT
    /\ r.epoch_index = r.slot_index \div DEFAULT_SLOTS_PER_EPOCH
    /\ (r.slot_index = 0) <=> (r.tick_index < DEFAULT_TICKS_PER_SLOT)
    /\ (r.tick_index = DEFAULT_TICKS_PER_SLOT) => (r.slot_index = 1)

C3_Witness ==
  /\ Len(records) > DEFAULT_TICKS_PER_SLOT + 1
  /\ records[DEFAULT_TICKS_PER_SLOT].slot_index = 0
  /\ records[DEFAULT_TICKS_PER_SLOT + 1].slot_index = 1
  /\ \E i \in 1..Len(records) : records[i].event # None

\* The digests a corrupted hash field may hold: any value but the original.
OtherDigests(recs, h) ==
  ({recs[i].hash : i \in 1..Len(recs)}
     \cup {Digest(<<h>>, <<>>), Digest(<<>>, seed), Digest(<<>>, <<MaxByte, MaxByte, MaxByte>>)})
  \ {h}

\* The event fields that differ from ev in exactly one byte.
OtherEvents(ev) ==
  IF ev = None THEN {}
  ELSE {Some([ev[1] EXCEPT ![j] = b]) :
          j \in 1..Len(ev[1]), b \in Byte} \ {ev}

\* The sequences recs with one field of recs[k] changed.
Tampered(recs, k) ==
  LET r == recs[k] IN
  {[recs EXCEPT ![k] = [r EXCEPT !.hash = h]] : h \in OtherDigests(recs, r.hash)}
  \cup {[recs EXCEPT ![k] = [r EXCEPT !.tick_index = t]] :
          t \in (0..(Len(recs) + 2)) \ {r.tick_index}}
  \cup {[recs EXCEPT ![k] = [r EXCEPT !.slot_index = t]] : t \in (0..2) \ {r.slot_index}}
  \cup {[recs EXCEPT ![k] = [r EXCEPT !.epoch_index = t]] : t \in (0..2) \ {r.epoch_index}}
  \cup {[recs EXCEPT ![k] = [r EXCEPT !.event = e]] : e \in OtherEvents(r.event)}

\* C4: in a record sequence produced by one engine, changing the hash, the
\* tick_index, the slot_index, the epoch_index or one byte of the event of
\* any records[k], k > 0, makes verify_records false.
C4_CorruptionDetected ==
  \A k \in 2..Len(records) :
    \A t \in Tampered(records, k) : ~verify_records(t)

C4_Witness ==
  /\ Len(records) >= 3
  /\ verify_records(records)
  /\ records[2].event # None /\ Len(records[2].event[1]) = 2
  /\ records[3].event = None
  /\ Cardinality(Tampered(records, 2)) >= 8

\* ------------------------------------------------------------------------
\* Claims about the tick scheduler
\* ------------------------------------------------------------------------
\* C5: whatever the consumer's pace, the records observed on the receiver
\* have tick_index 0, 1, 2, ... in consecutive order, and none is dropped,
\* duplicated or reordered on the way: while the receiver lives, what was
\* received, what the channel buffers and what the worker still holds make
\* up exactly the records the engine emitted, in emission order.
C5_InOrderNoLoss ==
  /\ \A j \in 1..Len(received) : received[j].tick_index = j - 1
  /\ rx_alive => received \o channel \o records_batch = records

C5_Witness ==
  /\ rx_alive
  /\ Len(channel) = ChannelCapacity
  /\ worker_pc = "send"
  /\ records_batch # <<>>
  /\ Len(received) >= ChannelCapacity

\* C6: if the consumer keeps receiving, the worker started by
\* thread(seed, max_ticks) eventually has delivered exactly max_ticks
\* records and has terminated, and the receiver observes the closure of the
\* channel only after the last of them.
C6_DeliversAllThenCloses ==
  /\ <>(worker_pc = "done" /\ Len(received) = max_ticks)
  /\ <>rx_disconnected
  /\ [](Len(received) <= max_ticks)
  /\ [](rx_disconnected => (worker_pc = "done" /\ Len(received) = max_ticks))

C6_Witness ==
  /\ rx_disconnected
  /\ max_ticks > BatchSize
  /\ max_ticks % BatchSize # 0
  /\ Len(received) = max_ticks

\* C17: if the receiver is dropped while the worker is running, the worker
\* eventually exits cleanly: it makes at most BATCH_SIZE further ticks, the
\* failed send of the next full batch ends the loop, and the worker ends
\* with nothing left to send.
C17_ReceiverDropEndsWorker ==
  /\ [](ticks_after_drop <= BatchSize)
  /\ [][(~rx_alive /\ worker_pc = "send") => worker_pc' \in {"send", after_loop}]_vars
  /\ ~rx_alive ~> (worker_pc = "done" /\ records_batch = <<>>)

\* The receiver was dropped in mid-run: the worker ticked on until its
\* batch was full and left the loop before max_ticks.
C17_Witness ==
  /\ ~rx_alive
  /\ worker_pc = "done"
  /\ ticks_after_drop = BatchSize
  /\ tick_i + 1 < max_ticks

\* C18: running_count is incremented once per successful spawn and
\* decremented exactly once per handle, at join or at the drop of a handle
\* that was not joined, also when the worker panicked: it is the number of
\* handles returned and neither joined nor dropped, hence 0 when there is
\* none left; and join returns Err exactly for a worker that panicked,
\* after which the manager can spawn again.
C18_RunningCountBalanced ==
  /\ [](running_count = Cardinality(handles))
  /\ []((handles = {} /\ \A c \in Callers : caller[c].pc # "launched") =>
          running_count = 0)
  /\ [][\A c \in Callers :
          (caller'[c].result # caller[c].result
             /\ caller'[c].result \in {"join_ok", "join_err"}) =>
            \E t \in handles \ handles' :
              (caller'[c].result = "join_err") <=> (mgr_threads[t] = "panicked")]_vars

\* A join returned the panic of a worker, another handle was dropped
\* without join, and the manager then spawned again.
C18_Witness ==
  /\ running_count = 1
  /\ Len(mgr_threads) = 3
  /\ mgr_threads[1] = "joined"
  /\ mgr_threads[2] = "joined"
  /\ \E c \in Callers : caller[c].result = "join_err"
  /\ \E c \in Callers : caller[c].result = "ok"
  /\ handles = {3}

\* C19: spawn / spawn_named called when running_count = max_threads returns
\* an error, launches no worker and leaves running_count unchanged; with
\* running_count below max_threads again (after a join) the call is not
\* refused for capacity: it goes on to launch unless its name is too long.
C19_SpawnAtCapacityFails ==
  /\ [][((MgrSpawn \/ MgrSpawnNamed) /\ running_count >= mgr_max_threads) =>
          /\ \A c \in Callers :
               /\ caller'[c].pc = caller[c].pc
               /\ caller'[c] # caller[c] => caller'[c].result \in {"err_full", "err_name"}
          /\ mgr_threads' = mgr_threads
          /\ running_count' = running_count]_vars
  /\ [][((MgrSpawn \/ MgrSpawnNamed) /\ running_count < mgr_max_threads) =>
          \A c \in Callers :
            caller'[c] # caller[c] =>
              \/ caller'[c].pc = "checked"
              \/ caller'[c].result = "err_name"]_vars

\* With max_threads = 1: a spawn succeeded, one was refused at capacity,
\* the first handle was joined and a further spawn succeeded.
C19_Witness ==
  /\ mgr_max_threads = 1
  /\ running_count = 1
  /\ id_count = 3
  /\ Len(mgr_threads) = 2
  /\ mgr_threads[1] = "joined"
  /\ handles = {2}
  /\ \E c \in Callers : caller[c].result = "ok"

\* ------------------------------------------------------------------------
\* Specification SpecVt: verify_timestamps (poh/src/core.rs) applied to a
\* slice of records with arbitrary timestamps.
\* ------------------------------------------------------------------------
saturating_sub(a, b) == IF a < b THEN 0 ELSE a - b

\* The drift the function allows, in milliseconds.
allowed_drift == 8

\* The timestamp expected of the record at (0-based) position i.
expected_timestamp(first_timestamp, i) ==
  saturating_add(first_timestamp, (i * DEFAULT_US_PER_TICK) \div 1000)

\* log_failures only selects whether a failure is logged.
verify_timestamps(recs, log_failures) ==
  IF recs = <<>>
  THEN FALSE
  ELSE \A k \in 1..Len(recs) :
         LET timestamp == recs[k].timestamp_ms
             expected == expected_timestamp(recs[1].timestamp_ms, k - 1)
             lower_bound == saturating_sub(expected, allowed_drift)
             upper_bound == saturating_add(expected, allowed_drift)
             too_early == timestamp < lower_bound
             too_late == timestamp > upper_bound
         IN  ~(too_early \/ too_late)

\* The caller builds the slice, one record at a time.
VtPush ==
  /\ vt_result = <<>>
  /\ Len(vt_records) < MaxVtRecords
  /\ \E t \in 0..MaxTimestamp :
       vt_records' = Append(vt_records, [timestamp_ms |-> t])
  /\ UNCHANGED <<vt_log_failures, vt_result>>
  /\ UNCHANGED <<pohVars, schedVars, mgrVars, poolVars, twinVars, chainVars, fnVars, lockVars>>

\* The call itself.
VtCall ==
  /\ vt_result = <<>>
  /\ \E log_failures \in BOOLEAN :
       /\ vt_log_failures' = log_failures
       /\ vt_result' = <<verify_timestamps(vt_records, log_failures)>>
  /\ UNCHANGED vt_records
  /\ UNCHANGED <<pohVars, schedVars, mgrVars, poolVars, twinVars, chainVars, fnVars, lockVars>>

VtInit == SchedIdle /\ MgrIdle /\ PoolIdle /\ VtIdle /\ CallsIdle /\ PoHNew(<<>>)

VtNext ==
  \/ VtPush
  \/ VtCall

SpecVt == VtInit /\ [][VtNext]_vars

Abs(x) == IF x < 0 THEN -x ELSE x

\* Every record at position i is within tolerance_ms of t0 + i * TICK_MS,
\* TICK_MS being DEFAULT_US_PER_TICK / 1000 = 6.25 (compared in microseconds).
WithinTolerance(recs, tolerance_ms) ==
  \A k \in 1..Len(recs) :
    Abs(1000 * recs[k].timestamp_ms
          - (1000 * recs[1].timestamp_ms + (k - 1) * DEFAULT_US_PER_TICK))
      <= 1000 * tolerance_ms

\* C20: verify_timestamps(records, tolerance_ms) returns true exactly when
\* records is non-empty and every record at position i satisfies
\* |timestamp_ms - (t0 + i * TICK_MS)| <= tolerance_ms, whatever tolerance
\* the caller asked for; an empty slice gives false.
C20_CallerToleranceApplied ==
  vt_result # <<>> =>
    \A tolerance_ms \in ToleranceMs :
      vt_result[1] = (vt_records # <<>> /\ WithinTolerance(vt_records, tolerance_ms))

\* ------------------------------------------------------------------------
\* Specification SpecTwin: an engine is driven by next_tick / insert_event,
\* then a second engine is created from the same seed and driven by the
\* same calls, its clock read independently of the first one's.
\* ------------------------------------------------------------------------
TwinInit ==
  /\ SchedIdle /\ MgrIdle /\ PoolIdle /\ VtIdle /\ ChainIdle /\ FnIdle /\ LockIdle
  /\ twin_phase = "first"
  /\ twin_calls = <<>>
  /\ twin_records = <<>>
  /\ \E s \in Seeds : PoHNew(s)

\* next_tick on the first engine.
TwinFirstTick ==
  /\ twin_phase = "first"
  /\ tick_count < MaxTicks
  /\ \E t \in ClockReadings : core(None, t)
  /\ twin_calls' = Append(twin_calls, None)
  /\ UNCHANGED <<twin_phase, twin_records>>
  /\ UNCHANGED <<schedVars, mgrVars, poolVars, vtVars, chainVars, fnVars, lockVars>>

\* insert_event(data) on the first engine.
TwinFirstEvent ==
  /\ twin_phase = "first"
  /\ tick_count < MaxTicks
  /\ \E data \in EventData :
       /\ \E t \in ClockReadings : core(Some(data), t)
       /\ twin_calls' = Append(twin_calls, Some(data))
  /\ UNCHANGED <<twin_phase, twin_records>>
  /\ UNCHANGED <<schedVars, mgrVars, poolVars, vtVars, chainVars, fnVars, lockVars>>

\* PoH::new(seed) for the second engine, whose clock starts at its creation.
TwinSecondNew ==
  /\ twin_phase = "first"
  /\ records # <<>>
  /\ twin_phase' = "second"
  /\ twin_records' = records
  /\ current_hash' = hash(seed)
  /\ tick_count' = 0
  /\ slot_count' = 0
  /\ epoch_count' = 0
  /\ now' = 0
  /\ engine' = "running"
  /\ records' = <<>>
  /\ UNCHANGED <<seed, twin_calls>>
  /\ UNCHANGED <<schedVars, mgrVars, poolVars, vtVars, chainVars, fnVars, lockVars>>

\* The next call of the sequence, on the second engine.
TwinSecondCall ==
  /\ twin_phase = "second"
  /\ Len(records) < Len(twin_calls)
  /\ \E t \in ClockReadings : core(twin_calls[Len(records) + 1], t)
  /\ UNCHANGED twinVars
  /\ UNCHANGED <<schedVars, mgrVars, poolVars, vtVars, chainVars, fnVars, lockVars>>

TwinNext ==
  \/ TwinFirstTick
  \/ TwinFirstEvent
  \/ TwinSecondNew
  \/ TwinSecondCall

SpecTwin == TwinInit /\ [][TwinNext]_vars

\* The fields of a record other than its timestamp.
Untimed(r) ==
  [hash |-> r.hash, tick_index |-> r.tick_index, slot_index |-> r.slot_index,
   epoch_index |-> r.epoch_index, event |-> r.event]

unrolled_pass_seven(h) ==
  hash_single(hash_single(hash_single(hash_single(
    hash_single(hash_single(hash_single(h)))))))

\* The body of the unrolled loop: eight calls of hash_single.
unrolled_pass(h) ==
  hash_single(hash_single(hash_single(hash_single(
    hash_single(hash_single(hash_single(hash_single(h))))))))

ChainDigests == {hash(s) : s \in Seeds}
LargeIterations == {U64Max - 9, U64Max - 1, U64Max}

ChainInit ==
  /\ SchedIdle /\ MgrIdle /\ PoolIdle /\ VtIdle /\ TwinIdle /\ FnIdle /\ LockIdle
  /\ PoHNew(<<>>)
  /\ ec_prev_hash \in ChainDigests
  /\ \/ /\ ec_iterations \in 0..MaxIterations
        /\ ec_pc = "entry"
        /\ ec_current_hash = ec_prev_hash
        /\ ec_i = 0
        /\ ec_applied = 0
     \/ /\ ec_iterations \in LargeIterations
        /\ ec_pc = "unrolled"
        /\ ec_i = 8 * (ec_iterations \div 8) - 16
        /\ ec_applied = ec_i
        /\ ec_current_hash = [ec_prev_hash EXCEPT !.n = @ + ec_i]

\* if iterations < 8
EcEnter ==
  /\ ec_pc = "entry"
  /\ ec_pc' = IF ec_iterations < 8 THEN "short" ELSE "unrolled"
  /\ ec_i' = 0
  /\ UNCHANGED <<ec_prev_hash, ec_iterations, ec_current_hash, ec_applied>>
  /\ UNCHANGED <<pohVars, schedVars, mgrVars, poolVars, vtVars, twinVars, fnVars, lockVars>>

\* for _ in 0..iterations, then return
EcShort ==
  /\ ec_pc = "short"
  /\ IF ec_i < ec_iterations
     THEN /\ ec_current_hash' = hash_single(ec_current_hash)
          /\ ec_i' = ec_i + 1
          /\ ec_applied' = ec_applied + 1
          /\ UNCHANGED ec_pc
     ELSE /\ ec_pc' = "returned"
          /\ UNCHANGED <<ec_current_hash, ec_i, ec_applied>>
  /\ UNCHANGED <<ec_prev_hash, ec_iterations>>
  /\ UNCHANGED <<pohVars, schedVars, mgrVars, poolVars, vtVars, twinVars, fnVars, lockVars>>

\* while let Some(next_i) = i.checked_add(8) { if next_i > iterations { break; } ... }
EcUnrolled ==
  /\ ec_pc = "unrolled"
  /\ LET next_i == checked_add(ec_i, 8)
     IN  IF next_i = None \/ next_i[1] > ec_iterations
         THEN /\ ec_pc' = "remainder"
              /\ UNCHANGED <<ec_current_hash, ec_i, ec_applied>>
         ELSE /\ ec_current_hash' = unrolled_pass(ec_current_hash)
              /\ ec_i' = next_i[1]
              /\ ec_applied' = ec_applied + 8
              /\ UNCHANGED ec_pc
  /\ UNCHANGED <<ec_prev_hash, ec_iterations>>
  /\ UNCHANGED <<pohVars, schedVars, mgrVars, poolVars, vtVars, twinVars, fnVars, lockVars>>

\* for _ in i..iterations, then return
EcRemainder ==
  /\ ec_pc = "remainder"
  /\ IF ec_i < ec_iterations
     THEN /\ ec_current_hash' = hash_single(ec_current_hash)
          /\ ec_i' = ec_i + 1
          /\ ec_applied' = ec_applied + 1
          /\ UNCHANGED ec_pc
     ELSE /\ ec_pc' = "returned"
          /\ UNCHANGED <<ec_current_hash, ec_i, ec_applied>>
  /\ UNCHANGED <<ec_prev_hash, ec_iterations>>
  /\ UNCHANGED <<pohVars, schedVars, mgrVars, poolVars, vtVars, twinVars, fnVars, lockVars>>

ChainNext ==
  \/ EcEnter
  \/ EcShort
  \/ EcUnrolled
  \/ EcRemainder

SpecChain == ChainInit /\ [][ChainNext]_vars

\* C22: extend_chain(prev, n) is the one-shot hash applied n times in
\* sequence starting from prev: at every point of the call the current hash
\* is prev hashed as many times as hash_single was called, and when the call
\* returns the short path, the unrolled loop and the remainder loop have
\* together made exactly n calls; the function taken as a whole gives the
\* same digest.
C22_ExtendChainAppliesN ==
  /\ ec_applied <= ec_iterations
  /\ ec_current_hash = IterHash(ec_prev_hash, ec_applied)
  /\ ec_pc = "returned" =>
       /\ ec_applied = ec_iterations
       /\ ec_current_hash = extend_hash_chain(ec_prev_hash, ec_iterations)
       /\ ec_iterations <= MaxIterations =>
            ec_current_hash = hash_times(ec_prev_hash, ec_iterations)

\* A call with n = 20 returned after two passes of the unrolled loop and
\* four of the remainder loop.
C22_Witness ==
  /\ ec_pc = "returned"
  /\ ec_iterations = MaxIterations
  /\ ec_i = ec_iterations
  /\ ec_applied = MaxIterations

\* ------------------------------------------------------------------------
\* Specification SpecEq: calls of verify_hash_chain without event data, and
\* of constant_time_eq on byte arrays (lib/src/utils/hash.rs).
\* ------------------------------------------------------------------------
\* Bit k of a byte.
Bit(a, k) == (a \div (2 ^ k)) % 2

\* a ^ b and a | b on u8, bit by bit.
BitXor(a, b) ==
  LET x == [k \in 0..7 |-> (Bit(a, k) + Bit(b, k)) % 2]
  IN  x[0] + 2 * x[1] + 4 * x[2] + 8 * x[3] + 16 * x[4] + 32 * x[5] + 64 * x[6] + 128 * x[7]

BitOr(a, b) ==
  LET x == [k \in 0..7 |-> IF Bit(a, k) + Bit(b, k) > 0 THEN 1 ELSE 0]
  IN  x[0] + 2 * x[1] + 4 * x[2] + 8 * x[3] + 16 * x[4] + 32 * x[5] + 64 * x[6] + 128 * x[7]

\* Bug variant: result = a[i] ^ b[i], the earlier positions are forgotten.
ct_accumulate_last(result, x, y) == BitXor(x, y)

\* result |= a[i] ^ b[i]
ct_accumulate(result, x, y) == BitOr(result, BitXor(x, y))

\* for i in 0..32: result after the positions before i (position i of the
\* code is index i + 1 here).
RECURSIVE ct_loop(_, _, _)
ct_loop(a, b, i) ==
  IF i = 0 THEN 0
  ELSE CHOOSE result \in {ct_accumulate(before, a[i], b[i]) :
                            before \in {ct_loop(a, b, i - 1)}} : TRUE

\* constant_time_eq on the 32 bytes themselves; on digests, which the model
\* keeps as terms, it is constant_time_eq above.
constant_time_eq_bytes(a, b) == ct_loop(a, b, 32) = 0

\* Arguments of the calls.
EqDigests ==
  {IterHash(hash(sd), k) :
     sd \in Seeds,
     k \in {0, 1, 2, 7, 8, 9, 10, DEFAULT_HASHES_PER_TICK - 1,
            DEFAULT_HASHES_PER_TICK, DEFAULT_HASHES_PER_TICK + 1}}
EqStarts == {IterHash(hash(sd), k) : sd \in Seeds, k \in {0, 1}}
EqIterations == {0, 1, 7, 8, 9, DEFAULT_HASHES_PER_TICK}
EqBytes == {0, 1, 128, 255}
EqPositions == {1, 2, 16, 17, 31, 32}
EqArrays == {[i \in 1..32 |-> 0], [i \in 1..32 |-> IF i % 2 = 0 THEN 255 ELSE 1]}

EqInit ==
  /\ SchedIdle /\ MgrIdle /\ PoolIdle /\ VtIdle /\ TwinIdle /\ ChainIdle /\ FnIdle /\ LockIdle
  /\ PoHNew(<<>>)

CallVerifyHashChain ==
  /\ fn_name = "none"
  /\ \E h \in EqStarts, x \in EqDigests, n \in EqIterations :
       /\ fn_name' = "verify_hash_chain"
       /\ fn_args' = <<h, x, n, None>>
       /\ fn_result' = verify_hash_chain(h, x, n, None)
  /\ UNCHANGED <<pohVars, schedVars, mgrVars, poolVars, vtVars, twinVars, chainVars, lockVars>>

\* b is a with up to two bytes replaced.
CallConstantTimeEq ==
  /\ fn_name = "none"
  /\ \E a \in EqArrays, p \in EqPositions, q \in EqPositions, v \in EqBytes, w \in EqBytes :
       LET b == [a EXCEPT ![p] = v, ![q] = w]
       IN  /\ fn_name' = "constant_time_eq"
           /\ fn_args' = <<a, b>>
           /\ fn_result' = constant_time_eq_bytes(a, b)
  /\ UNCHANGED <<pohVars, schedVars, mgrVars, poolVars, vtVars, twinVars, chainVars, lockVars>>

EqNext ==
  \/ CallVerifyHashChain
  \/ CallConstantTimeEq

SpecEq == EqInit /\ [][EqNext]_vars

\* C23: verify_hash_chain(h, x, n, None) is true for x = extend_chain(h, n),
\* the hash applied n times to h, and false for every other x (for n = 0 it
\* compares h with x); and the constant-time equality is true iff the two
\* arrays agree at all 32 positions.
C23_VerifyChainIffExtension ==
  /\ fn_name = "verify_hash_chain" =>
       fn_result = (fn_args[2] = IterHash(fn_args[1], fn_args[3]))
  /\ fn_name = "constant_time_eq" =>
       fn_result = (\A i \in 1..32 : fn_args[1][i] = fn_args[2][i])

\* The arrays differ at two positions by the same bits and the comparison
\* returned false.
C23_Witness ==
  /\ fn_name = "constant_time_eq"
  /\ fn_result = FALSE
  /\ Cardinality({i \in 1..32 : fn_args[1][i] # fn_args[2][i]}) = 2
  /\ \A i \in 1..32 : BitXor(fn_args[1][i], fn_args[2][i]) \in {0, 128}

\* C24: a record emitted by next_tick has no event and a record emitted by
\* insert_event(data) carries an event equal to data: the event of the i-th
\* record is the argument of the i-th call, so an event is present iff that
\* tick stamped one and it is never attached to a later record.
C24_EventIffStamped ==
  /\ Len(records) <= Len(twin_calls)
  /\ \A i \in 1..Len(records) : records[i].event = twin_calls[i]

\* An empty event was stamped, then a plain tick, then a two-byte event.
C24_Witness ==
  /\ twin_phase = "first"
  /\ Len(records) = 3
  /\ records[1].event = Some(<<>>)
  /\ records[2].event = None
  /\ records[3].event = Some(<<0, 1>>)

VerifyRecordPool ==
  [tick_index : 0..1, slot_index : {0}, epoch_index : {0},
   hash : {IterHash(hash(<<>>), k * DEFAULT_HASHES_PER_TICK) : k \in 1..2},
   timestamp_ms : {0, 6, 20}, event : {None}]
VerifySlices ==
  {<<>>} \cup {<<r>> : r \in VerifyRecordPool}
         \cup {<<p, r>> : p \in VerifyRecordPool, r \in VerifyRecordPool}

VerifyInit ==
  /\ SchedIdle /\ MgrIdle /\ PoolIdle /\ VtIdle /\ TwinIdle /\ ChainIdle /\ FnIdle /\ LockIdle
  /\ PoHNew(<<>>)

CallVerifyRecords ==
  /\ fn_name = "none"
  /\ \E recs \in VerifySlices :
       /\ fn_name' = "verify_records"
       /\ fn_args' = <<recs>>
       /\ fn_result' = verify_records(recs)
  /\ UNCHANGED <<pohVars, schedVars, mgrVars, poolVars, vtVars, twinVars, chainVars, lockVars>>

CallVerifyTimestamps ==
  /\ fn_name = "none"
  /\ \E recs \in VerifySlices, log_failures \in BOOLEAN :
       /\ fn_name' = "verify_timestamps"
       /\ fn_args' = <<recs, log_failures>>
       /\ fn_result' = verify_timestamps(recs, log_failures)
  /\ UNCHANGED <<pohVars, schedVars, mgrVars, poolVars, vtVars, twinVars, chainVars, lockVars>>

VerifyNext ==
  \/ CallVerifyRecords
  \/ CallVerifyTimestamps

SpecVerify == VerifyInit /\ [][VerifyNext]_vars

\* C26: verify_records and verify_timestamps both return false on an empty
\* slice of records.
C26_EmptySliceRejected ==
  (fn_name \in {"verify_records", "verify_timestamps"} /\ fn_args[1] = <<>>) =>
    fn_result = FALSE

\* verify_records was called on the empty slice and returned false.
C26_Witness ==
  /\ fn_name = "verify_records"
  /\ fn_args[1] = <<>>
  /\ fn_result = FALSE

\* ------------------------------------------------------------------------
\* Specification SpecNew: calls of Manager::new and ThreadPool::new
\* (thread/src/native/manager.rs, pool.rs) on arbitrary configurations, and
\* of spawn_named on a manager with room or without.  A name is given by
\* its number of characters and its number of bytes (String::len); cpus is
\* what num_cpus::get() returns.
\* ------------------------------------------------------------------------
MIN_STACK_SIZE_BYTES == 64 * 1024

\* Bug variant: only the order of the range is checked.
core_allocation_validate_order(alloc, cpus) ==
  IF alloc.kind = "OsDefault" THEN TRUE ELSE ~(alloc.min > alloc.max)

\* CoreAllocation::validate: TRUE for Ok(()).
core_allocation_validate(alloc, cpus) ==
  IF alloc.kind = "OsDefault"
  THEN TRUE
  ELSE IF alloc.min > alloc.max THEN FALSE
  ELSE IF alloc.max >= cpus THEN FALSE
  ELSE TRUE

\* Config::validate: TRUE for Ok(()).
config_validate(config, cpus) ==
  IF config.max_threads = 0 THEN FALSE
  ELSE IF config.stack_size_bytes < MIN_STACK_SIZE_BYTES THEN FALSE
  ELSE core_allocation_validate(config.core_allocation, cpus)

\* Manager::new: whether it returned Ok, and the workers spawned.
manager_new(name, config, cpus) ==
  IF name_too_long(name.bytes) THEN [ok |-> FALSE, workers |-> 0]
  ELSE IF ~config_validate(config, cpus) THEN [ok |-> FALSE, workers |-> 0]
  ELSE [ok |-> TRUE, workers |-> 0]

\* spawn_named on a manager with `spawned` threads running: the name check,
\* then the capacity check.
spawn_named_result(name_bytes, spawned, max_threads) ==
  IF name_too_long(name_bytes) THEN [ok |-> FALSE, workers |-> 0]
  ELSE IF spawned >= max_threads THEN [ok |-> FALSE, workers |-> 0]
  ELSE [ok |-> TRUE, workers |-> 1]

\* The loop of ThreadPool::new over 0..max_threads from worker `id` on,
\* `spawned` workers running: spawn_worker names the worker "worker-{id}".
RECURSIVE spawn_workers(_, _, _)
spawn_workers(config, id, spawned) ==
  IF id >= config.max_threads
  THEN [ok |-> TRUE, workers |-> spawned]
  ELSE IF spawn_named_result(7 + DigitCount(id), spawned, config.max_threads).ok
       THEN spawn_workers(config, id + 1, spawned + 1)
       ELSE [ok |-> FALSE, workers |-> spawned]

\* ThreadPool::new
thread_pool_new(name, config, cpus) ==
  IF ~config_validate(config, cpus) THEN [ok |-> FALSE, workers |-> 0]
  ELSE IF ~manager_new(name, config, cpus).ok THEN [ok |-> FALSE, workers |-> 0]
  ELSE spawn_workers(config, 0, 0)

\* Arguments of the calls.
NewCpus == {1, 2}
NewAllocations ==
  {[kind |-> "OsDefault", min |-> 0, max |-> 0]}
    \cup [kind : {"PinnedCores", "DedicatedCoreSet"}, min : 0..2, max : 0..2]
NewConfigs ==
  [core_allocation : NewAllocations, max_threads : 0..2, priority : {0},
   stack_size_bytes : {0, MIN_STACK_SIZE_BYTES - 1, MIN_STACK_SIZE_BYTES,
                       2 * 1024 * 1024}]
\* Names of one-byte characters, and one of sixteen two-byte characters.
NewNames ==
  {[chars |-> n, bytes |-> n] :
     n \in {0, 10, MAX_THREAD_NAME_CHARS - 1, MAX_THREAD_NAME_CHARS,
            MAX_THREAD_NAME_CHARS + 1}}
    \cup {[chars |-> 16, bytes |-> 32]}

NewInit ==
  /\ SchedIdle /\ MgrIdle /\ PoolIdle /\ VtIdle /\ TwinIdle /\ ChainIdle /\ FnIdle /\ LockIdle
  /\ PoHNew(<<>>)

CallManagerNew ==
  /\ fn_name = "none"
  /\ \E name \in NewNames, config \in NewConfigs, cpus \in NewCpus :
       /\ fn_name' = "Manager::new"
       /\ fn_args' = <<name, config, cpus>>
       /\ fn_result' = manager_new(name, config, cpus)
  /\ UNCHANGED <<pohVars, schedVars, mgrVars, poolVars, vtVars, twinVars, chainVars, lockVars>>

CallThreadPoolNew ==
  /\ fn_name = "none"
  /\ \E name \in NewNames, config \in NewConfigs, cpus \in NewCpus :
       /\ fn_name' = "ThreadPool::new"
       /\ fn_args' = <<name, config, cpus>>
       /\ fn_result' = thread_pool_new(name, config, cpus)
  /\ UNCHANGED <<pohVars, schedVars, mgrVars, poolVars, vtVars, twinVars, chainVars, lockVars>>

\* spawn_named(name, f) on a manager of max_threads = 1.
CallSpawnNamed ==
  /\ fn_name = "none"
  /\ \E name \in NewNames, spawned \in 0..1 :
       /\ fn_name' = "spawn_named"
       /\ fn_args' = <<name, spawned, 1>>
       /\ fn_result' = spawn_named_result(name.bytes, spawned, 1)
  /\ UNCHANGED <<pohVars, schedVars, mgrVars, poolVars, vtVars, twinVars, chainVars, lockVars>>

NewNext ==
  \/ CallManagerNew
  \/ CallThreadPoolNew
  \/ CallSpawnNamed

SpecNew == NewInit /\ [][NewNext]_vars

\* The defects of a configuration the constructors must refuse.
ConfigDefect(config, cpus) ==
  \/ config.max_threads = 0
  \/ config.stack_size_bytes < 64 * 1024
  \/ /\ config.core_allocation.kind # "OsDefault"
     /\ \/ config.core_allocation.min > config.core_allocation.max
        \/ config.core_allocation.max \notin 0..(cpus - 1)

\* C27: Manager::new and ThreadPool::new fail, creating no manager and
\* spawning no worker, whenever max_threads = 0, stack_size_bytes < 64 KiB,
\* a core range has min > max or a core range's max is not an existing
\* core; they succeed for every configuration with none of these defects
\* and a name the name check accepts, ThreadPool::new with max_threads
\* workers spawned.
C27_ConstructorsValidate ==
  fn_name \in {"Manager::new", "ThreadPool::new"} =>
    LET name == fn_args[1]
        config == fn_args[2]
        cpus == fn_args[3]
    IN  /\ ConfigDefect(config, cpus) => (~fn_result.ok /\ fn_result.workers = 0)
        /\ (~ConfigDefect(config, cpus) /\ ~name_too_long(name.bytes)) =>
             /\ fn_result.ok
             /\ fn_name = "ThreadPool::new" => fn_result.workers = config.max_threads

\* ThreadPool::new refused a range whose max is the number of cores, all
\* else being valid.
C27_Witness ==
  /\ fn_name = "ThreadPool::new"
  /\ fn_args[2].max_threads = 2
  /\ fn_args[2].stack_size_bytes = 64 * 1024
  /\ fn_args[2].core_allocation = [kind |-> "PinnedCores", min |-> 0, max |-> 2]
  /\ fn_args[3] = 2
  /\ fn_args[1].bytes = 10
  /\ ~fn_result.ok
  /\ fn_result.workers = 0

\* C28: names are capped at 32 characters: Manager::new (the configuration
\* being valid) and spawn_named (the manager having room) accept every name
\* of at most 32 characters and reject every longer name.
C28_NamesCappedAt32 ==
  /\ fn_name = "Manager::new" =>
       (~ConfigDefect(fn_args[2], fn_args[3]) =>
          (fn_result.ok <=> fn_args[1].chars <= 32))
  /\ fn_name = "spawn_named" =>
       (fn_args[2] < fn_args[3] =>
          (fn_result.ok <=> fn_args[1].chars <= 32))

\* The state of thread t, "none" before it is spawned.
ThreadState(t) == IF t <= Len(mgr_threads) THEN mgr_threads[t] ELSE "none"

\* C29: in every spawned worker the affinity/priority policy is attempted
\* strictly before the user closure starts (the closure starts only in a
\* thread whose policy step has returned), and the closure always runs
\* afterwards, whether the policy step succeeded or failed.
C29_PolicyBeforeClosure ==
  /\ [][\A t \in 1..MaxLaunched :
          (ThreadState(t)' = "running" /\ ThreadState(t) # "running") =>
            ThreadState(t) \in {"policy_ok", "policy_failed"}]_vars
  /\ [][\A t \in 1..MaxLaunched :
          (ThreadState(t)' \in {"policy_ok", "policy_failed"}
             /\ ThreadState(t)' # ThreadState(t)) =>
            ThreadState(t) = "spawned"]_vars
  /\ \A t \in 1..MaxLaunched :
       (ThreadState(t) \in {"spawned", "policy_ok", "policy_failed"})
         ~> (ThreadState(t) = "running")

\* The policy step of one thread failed and the one of another succeeded,
\* neither closure having started.
C29_Witness ==
  /\ Len(mgr_threads) = 2
  /\ mgr_threads[1] = "policy_failed"
  /\ mgr_threads[2] = "policy_ok"

\* ------------------------------------------------------------------------
\* Specification SpecLocks: the mutexes of a thread pool
\* (thread/src/native/pool.rs): job_queue, stats and the result slot of an
\* execute_wait.  Two workers, a thread that submits jobs and the thread
\* that owns the pool are followed from one lock operation to the next;
\* what they find in the queue is left open.  lock() blocks while another
\* thread holds the mutex.
\* ------------------------------------------------------------------------
LockWorkers == {"worker-0", "worker-1"}
LockThreads == LockWorkers \cup {"submitter", "owner"}
Mutexes == {"job_queue", "stats", "result"}

\* m.lock() by thread t, and the drop of the guard.
acquire(t, m) ==
  /\ lk_owner[m] = "free"
  /\ lk_owner' = [lk_owner EXCEPT ![m] = t]

release(t, m) ==
  /\ lk_owner[m] = t
  /\ lk_owner' = [lk_owner EXCEPT ![m] = "free"]

goto(t, pc) == lk_pc' = [lk_pc EXCEPT ![t] = pc]

LockFrame ==
  UNCHANGED <<pohVars, schedVars, mgrVars, poolVars, vtVars, twinVars, chainVars, fnVars>>

LockInit ==
  /\ SchedIdle /\ MgrIdle /\ PoolIdle /\ VtIdle /\ TwinIdle /\ ChainIdle /\ FnIdle
  /\ PoHNew(<<>>)
  /\ lk_pc = [t \in LockThreads |-> IF t \in LockWorkers THEN "top" ELSE "idle"]
  /\ lk_owner = [m \in Mutexes |-> "free"]

\* while !shutdown.load(): leave the loop, or job_queue.lock().
LkWorkerQueue ==
  /\ \E w \in LockWorkers :
       /\ lk_pc[w] = "top"
       /\ \/ goto(w, "exited") /\ UNCHANGED lk_owner
          \/ acquire(w, "job_queue") /\ goto(w, "queue_locked")
  /\ LockFrame

\* stats.lock() for peak_queue_size, the queue guard alive.
LkWorkerPeakQueue ==
  /\ \E w \in LockWorkers :
       /\ lk_pc[w] = "queue_locked"
       /\ acquire(w, "stats")
       /\ goto(w, "queue_stats")
  /\ LockFrame

\* The end of the block: pool_stats is dropped.
LkWorkerPeakQueueDone ==
  /\ \E w \in LockWorkers :
       /\ lk_pc[w] = "queue_stats"
       /\ release(w, "stats")
       /\ goto(w, "queue_checked")
  /\ LockFrame

\* The queue is empty: signal.wait_timeout(queue, ..) releases job_queue.
LkWorkerWait ==
  /\ \E w \in LockWorkers :
       /\ lk_pc[w] = "queue_checked"
       /\ release(w, "job_queue")
       /\ goto(w, "waiting")
  /\ LockFrame

\* wait_timeout returns with job_queue locked again.
LkWorkerWake ==
  /\ \E w \in LockWorkers :
       /\ lk_pc[w] = "waiting"
       /\ acquire(w, "job_queue")
       /\ goto(w, "queue_woken")
  /\ LockFrame

\* The end of the block that computes job_option: the queue guard is
\* dropped.  Without a wait the queue was not empty and a job was popped;
\* after a wait the worker continues, breaks, or has popped a job.
LkWorkerLeaveQueue ==
  /\ \E w \in LockWorkers :
       /\ lk_pc[w] \in {"queue_checked", "queue_woken"}
       /\ release(w, "job_queue")
       /\ \E next \in (IF lk_pc[w] = "queue_checked" THEN {"got"}
                       ELSE {"top", "exited", "got"}) : goto(w, next)
  /\ LockFrame

\* stats.lock() for peak_active_workers.
LkWorkerPeakActive ==
  /\ \E w \in LockWorkers :
       /\ lk_pc[w] = "got"
       /\ acquire(w, "stats")
       /\ goto(w, "peak_active")
  /\ LockFrame

\* Bug variant: the guard taken for peak_active_workers lives on.
peak_guard_kept(w) == UNCHANGED lk_owner

\* The end of the block: pool_stats is dropped before the job is called.
peak_guard_dropped(w) == release(w, "stats")

LkWorkerPeakActiveDone ==
  /\ \E w \in LockWorkers :
       /\ lk_pc[w] = "peak_active"
       /\ peak_guard_dropped(w)
       /\ goto(w, "job")
  /\ LockFrame

\* catch_unwind(job): the closure runs to its end (or panics), or it is the
\* wrapper of an execute_wait whose f has returned and which goes on to
\* store the result.
LkWorkerJob ==
  /\ \E w \in LockWorkers :
       /\ lk_pc[w] = "job"
       /\ \E next \in {"ran", "wrapper_store"} : goto(w, next)
       /\ UNCHANGED lk_owner
  /\ LockFrame

\* The wrapper: result_clone.lock().
LkWorkerSlot ==
  /\ \E w \in LockWorkers :
       /\ lk_pc[w] = "wrapper_store"
       /\ acquire(w, "result")
       /\ goto(w, "wrapper_stored")
  /\ LockFrame

\* The wrapper returns Ok(()): slot is dropped.
LkWorkerSlotDone ==
  /\ \E w \in LockWorkers :
       /\ lk_pc[w] = "wrapper_stored"
       /\ release(w, "result")
       /\ goto(w, "ran")
  /\ LockFrame

\* stats.lock() for the statistics of the job.
LkWorkerStats ==
  /\ \E w \in LockWorkers :
       /\ lk_pc[w] = "ran"
       /\ acquire(w, "stats")
       /\ goto(w, "stats_update")
  /\ LockFrame

\* The end of the loop body: pool_stats is dropped.
LkWorkerStatsDone ==
  /\ \E w \in LockWorkers :
       /\ lk_pc[w] = "stats_update"
       /\ release(w, "stats")
       /\ goto(w, "top")
  /\ LockFrame

\* execute, execute_batch or the execute inside execute_wait:
\* job_queue.lock() and the push.
LkSubmit ==
  /\ lk_pc["submitter"] = "idle"
  /\ acquire("submitter", "job_queue")
  /\ \E call \in {"push_execute", "push_wait"} : goto("submitter", call)
  /\ LockFrame

\* The queue guard is dropped; execute_wait goes on to its result slot.
LkSubmitDone ==
  /\ lk_pc["submitter"] \in {"push_execute", "push_wait"}
  /\ release("submitter", "job_queue")
  /\ goto("submitter", IF lk_pc["submitter"] = "push_wait" THEN "slot" ELSE "idle")
  /\ LockFrame

\* execute_wait: result.lock(), or done_signal.wait returning.
LkSlot ==
  /\ lk_pc["submitter"] \in {"slot", "slot_waiting"}
  /\ acquire("submitter", "result")
  /\ goto("submitter", "slot_locked")
  /\ LockFrame

\* execute_wait: done_signal.wait(guard) releases the slot, or the result
\* is taken and the guard dropped at the return.
LkSlotDone ==
  /\ lk_pc["submitter"] = "slot_locked"
  /\ release("submitter", "result")
  /\ \E next \in {"slot_waiting", "idle"} : goto("submitter", next)
  /\ LockFrame

\* queued_job_count, wait_for_completion or shutdown_now lock job_queue;
\* stats and join lock stats.
LkOwnerLock ==
  /\ lk_pc["owner"] = "idle"
  /\ \E m \in {"job_queue", "stats"} :
       /\ acquire("owner", m)
       /\ goto("owner", IF m = "stats" THEN "stats_locked" ELSE "queue_locked")
  /\ LockFrame

LkOwnerUnlock ==
  /\ lk_pc["owner"] \in {"stats_locked", "queue_locked"}
  /\ release("owner", IF lk_pc["owner"] = "stats_locked" THEN "stats" ELSE "job_queue")
  /\ goto("owner", "idle")
  /\ LockFrame

LockNext ==
  \/ LkWorkerQueue
  \/ LkWorkerPeakQueue
  \/ LkWorkerPeakQueueDone
  \/ LkWorkerWait
  \/ LkWorkerWake
  \/ LkWorkerLeaveQueue
  \/ LkWorkerPeakActive
  \/ LkWorkerPeakActiveDone
  \/ LkWorkerJob
  \/ LkWorkerSlot
  \/ LkWorkerSlotDone
  \/ LkWorkerStats
  \/ LkWorkerStatsDone
  \/ LkSubmit
  \/ LkSubmitDone
  \/ LkSlot
  \/ LkSlotDone
  \/ LkOwnerLock
  \/ LkOwnerUnlock

SpecLocks == LockInit /\ [][LockNext]_vars

\* The mutexes thread t holds.
Held(t) == {m \in Mutexes : lk_owner[m] = t}

\* The mutex thread t is about to lock, "none" when its next step locks
\* nothing; t is blocked when that mutex is held (by itself too: the mutex
\* is not reentrant).
Wants(t) ==
  CASE lk_pc[t] \in {"top", "waiting"} -> "job_queue"
    [] lk_pc[t] \in {"queue_locked", "got", "ran"} /\ t \in LockWorkers -> "stats"
    [] lk_pc[t] \in {"wrapper_store", "slot", "slot_waiting"} -> "result"
    [] OTHER -> "none"
BlockedBy(t) == IF Wants(t) = "none" THEN "free" ELSE lk_owner[Wants(t)]

\* C30: no pool worker holds the job-queue mutex or the statistics mutex
\* while a job closure executes; the mutexes are always acquired in one
\* order (job_queue before stats, the result slot alone); and there is never
\* a set of threads each blocked on a mutex that a thread of the set holds.
C30_NoLockAcrossJobs ==
  /\ [](\A w \in LockWorkers :
          lk_pc[w] \in {"job", "wrapper_store", "wrapper_stored"} =>
            (lk_owner["job_queue"] # w /\ lk_owner["stats"] # w))
  /\ [][\A t \in LockThreads, m \in Mutexes :
          (lk_owner'[m] = t /\ lk_owner[m] # t) =>
            Held(t) \subseteq (IF m = "stats" THEN {"job_queue"} ELSE {})]_vars
  /\ [](\A D \in (SUBSET LockThreads) \ {{}} :
          \E t \in D : BlockedBy(t) \notin D)

\* One worker runs a job while the other, holding job_queue, waits for
\* stats, which the owner of the pool holds; the submitter is between
\* two calls.
C30_Witness ==
  /\ lk_pc["worker-0"] = "job"
  /\ lk_pc["worker-1"] = "queue_locked"
  /\ lk_owner["job_queue"] = "worker-1"
  /\ lk_owner["stats"] = "owner"
  /\ lk_pc["submitter"] = "idle"

\* ------------------------------------------------------------------------
\* Specification SpecLate: an engine taken up LateTicks calls before its
\* tick_count reaches u64::MAX.  slot_count and epoch_count are the values
\* core has left after that many calls; current_hash, whose derivation is
\* out of reach, is a digest named by the seed; records holds the records
\* returned from here on.
\* ------------------------------------------------------------------------
\* slot_count after `count` calls of core: the slots completed since the
\* last slot that core took for the first of an epoch.
slot_count_after(count) ==
  LET completed == count \div DEFAULT_TICKS_PER_SLOT
  IN  IF completed = 0 THEN 0 ELSE (completed - 1) % DEFAULT_SLOTS_PER_EPOCH

\* epoch_count after `count` calls of core.
epoch_count_after(count) ==
  LET completed == count \div DEFAULT_TICKS_PER_SLOT
  IN  IF completed = 0 THEN 0 ELSE (completed - 1) \div DEFAULT_SLOTS_PER_EPOCH

LateInit ==
  /\ SchedIdle /\ MgrIdle /\ PoolIdle /\ VtIdle /\ CallsIdle
  /\ \E s \in Seeds :
       /\ seed = s
       /\ current_hash = hash(s)
  /\ tick_count = U64Max - LateTicks
  /\ slot_count = slot_count_after(U64Max - LateTicks)
  /\ epoch_count = epoch_count_after(U64Max - LateTicks)
  /\ now = 0
  /\ engine = "running"
  /\ records = <<>>

LateTick ==
  /\ \E t \in ClockReadings : core(None, t)
  /\ UNCHANGED <<schedVars, mgrVars, poolVars, vtVars, twinVars, chainVars, fnVars, lockVars>>

LateEvent ==
  /\ \E data \in EventData, t \in ClockReadings : core(Some(data), t)
  /\ UNCHANGED <<schedVars, mgrVars, poolVars, vtVars, twinVars, chainVars, fnVars, lockVars>>

LateNext == LateTick \/ LateEvent

SpecLate == LateInit /\ [][LateNext]_vars

\* C31: at tick_count = u64::MAX the next next_tick / insert_event ends in
\* the overflow panic, leaving the counter where it was and returning no
\* record; the tick_index of the records returned grows by one from record
\* to record and never reaches a value the counter would wrap to.
C31_TickCountOverflowIsFatal ==
  /\ [][tick_count = U64Max =>
          (engine' = "panicked" /\ tick_count' = tick_count /\ records' = records)]_vars
  /\ [](\A i \in 1..Len(records) :
          /\ records[i].tick_index = U64Max - LateTicks + (i - 1)
          /\ records[i].tick_index < U64Max)
  /\ [](tick_count <= U64Max)

\* The call made at tick_count = u64::MAX has panicked, after the record
\* with tick_index u64::MAX - 1 was returned.
C31_Witness ==
  /\ engine = "panicked"
  /\ tick_count = U64Max
  /\ Len(records) = LateTicks
  /\ records[LateTicks].tick_index = U64Max - 1

\* C39: after every next_tick / insert_event the public counters agree with
\* the indices of the next record: slot_count is
\* (tick_count / TICKS_PER_SLOT) mod SLOTS_PER_EPOCH and epoch_count is
\* tick_count / (TICKS_PER_SLOT * SLOTS_PER_EPOCH).
C39_CountersMatchNextRecord ==
  records # <<>> =>
    /\ slot_count = (tick_count \div DEFAULT_TICKS_PER_SLOT) % DEFAULT_SLOTS_PER_EPOCH
    /\ epoch_count = tick_count \div (DEFAULT_TICKS_PER_SLOT * DEFAULT_SLOTS_PER_EPOCH)

\* ------------------------------------------------------------------------
\* Specification SpecPairs: verify_records (poh/src/core.rs) called on
\* slices of one or two records whose fields are arbitrary: tick indices at
\* both ends of the 64-bit range, right and wrong slot and epoch indices,
\* hashes that continue one another or not, with and without an event.
\* ------------------------------------------------------------------------
PairTickIndices == {0, 1, U64Max - 1, U64Max}
PairSlotIndices == {0, U64Max \div DEFAULT_TICKS_PER_SLOT, 7}
PairEpochIndices ==
  {0, U64Max \div (DEFAULT_TICKS_PER_SLOT * DEFAULT_SLOTS_PER_EPOCH), 9}
PairHashes ==
  {hash(<<>>),
   extend_hash_chain(hash(<<>>), DEFAULT_HASHES_PER_TICK),
   extend_hash_chain(hash_with_data(hash(<<>>), <<0>>), DEFAULT_HASHES_PER_TICK)}
PairRecordPool ==
  [tick_index : PairTickIndices, slot_index : PairSlotIndices,
   epoch_index : PairEpochIndices, hash : PairHashes,
   timestamp_ms : {0}, event : {None, Some(<<0>>)}]

PairInit ==
  /\ SchedIdle /\ MgrIdle /\ PoolIdle /\ VtIdle /\ TwinIdle /\ ChainIdle /\ FnIdle /\ LockIdle
  /\ PoHNew(<<>>)

\* verify_records(&[r])
CallVerifyOne ==
  /\ fn_name = "none"
  /\ \E r \in PairRecordPool :
       /\ fn_name' = "verify_records"
       /\ fn_args' = <<<<r>>>>
       /\ fn_result' = verify_records(<<r>>)
  /\ UNCHANGED <<pohVars, schedVars, mgrVars, poolVars, vtVars, twinVars, chainVars, lockVars>>

\* verify_records(&[prev, curr])
CallVerifyTwo ==
  /\ fn_name = "none"
  /\ \E prev \in PairRecordPool, curr \in PairRecordPool :
       /\ fn_name' = "verify_records"
       /\ fn_args' = <<<<prev, curr>>>>
       /\ fn_result' = verify_records(<<prev, curr>>)
  /\ UNCHANGED <<pohVars, schedVars, mgrVars, poolVars, vtVars, twinVars, chainVars, lockVars>>

PairNext ==
  \/ CallVerifyOne
  \/ CallVerifyTwo

SpecPairs == PairInit /\ [][PairNext]_vars

\* C32: verify_records returns true only if every record's tick_index is
\* its predecessor's plus one; it never accepts two adjacent records with
\* the same tick_index, whatever 64-bit values the indices have.
C32_TickIndexStepsByOne ==
  (fn_name = "verify_records" /\ fn_result = TRUE) =>
    \A w \in 1..(Len(fn_args[1]) - 1) :
      fn_args[1][w + 1].tick_index = fn_args[1][w].tick_index + 1

\* C38: verify_records checks records pairwise only: a slice of one
\* record is accepted whatever its fields, and the result for any slice is
\* the same whatever slot_index and epoch_index its first record carries;
\* the hash of the first record is compared with nothing but its successor.
C38_FirstRecordUnchecked ==
  fn_name = "verify_records" =>
    /\ Len(fn_args[1]) = 1 => fn_result = TRUE
    /\ \A s \in PairSlotIndices, e \in PairEpochIndices :
         verify_records([fn_args[1] EXCEPT ![1].slot_index = s,
                                           ![1].epoch_index = e]) = fn_result

\* Two records are accepted although the first carries the digest of the
\* seed itself, a slot_index and an epoch_index that do not belong to its
\* tick_index.
C38_Witness ==
  /\ fn_name = "verify_records"
  /\ Len(fn_args[1]) = 2
  /\ fn_result = TRUE
  /\ fn_args[1][1].hash = hash(<<>>)
  /\ fn_args[1][1].tick_index = 0
  /\ fn_args[1][1].slot_index = 7
  /\ fn_args[1][1].epoch_index = 9

\* ------------------------------------------------------------------------
\* Specification SpecPolicy: one call of apply_policy
\* (thread/src/native/policy.rs) in a new thread.  Whether the operating
\* system accepts the priority and the affinity is left open.  The result
\* lists the system calls attempted, in order, each with its outcome.
\* ------------------------------------------------------------------------
PolicyAllocations == {"PinnedCores", "DedicatedCoreSet", "OsDefault"}
PolicyPriorities == {0, 1, 200}
PolicyCores == {<<>>, <<0, 1>>, <<2, 3, 4>>}
PolicyNames == {<<97>>, <<97, 98>>, <<119, 45, 48>>}

\* platform::set_priority(value) with the system's answer os_ok.
set_priority(value, os_ok) ==
  IF value = 0 THEN [ok |-> TRUE, calls |-> <<>>]
  ELSE [ok |-> os_ok, calls |-> <<[op |-> "priority", arg |-> value, ok |-> os_ok]>>]

\* platform::set_affinity(cores) with the system's answer os_ok.
set_affinity(cores, os_ok) ==
  IF cores = <<>> THEN [ok |-> TRUE, calls |-> <<>>]
  ELSE [ok |-> os_ok, calls |-> <<[op |-> "affinity", arg |-> cores, ok |-> os_ok]>>]

\* thread_name.bytes().fold(0u64, |acc, b| acc.wrapping_add(b as u64))
RECURSIVE name_hash(_)
name_hash(bytes) ==
  IF bytes = <<>> THEN 0
  ELSE (name_hash(Tail(bytes)) + Head(bytes)) % (U64Max + 1)

\* The cores the match on alloc passes to set_affinity, <<>> for none.
affinity_target(alloc, cores, thread_name) ==
  CASE alloc = "PinnedCores" ->
         IF cores = <<>> THEN <<>>
         ELSE <<cores[(name_hash(thread_name) % Len(cores)) + 1]>>
    [] alloc = "DedicatedCoreSet" -> cores
    [] alloc = "OsDefault" -> <<>>

\* apply_policy(alloc, priority, cores) in the thread named thread_name.
apply_policy(alloc, priority, cores, thread_name, priority_ok, affinity_ok) ==
  LET raised == set_priority(priority, priority_ok)
  IN  IF ~raised.ok
      THEN \* set_priority(priority)?
           [result |-> "Err", calls |-> raised.calls]
      ELSE LET bound == set_affinity(affinity_target(alloc, cores, thread_name), affinity_ok)
           IN  [result |-> IF bound.ok THEN "Ok" ELSE "Err",
                calls |-> raised.calls \o bound.calls]

PolicyInit ==
  /\ SchedIdle /\ MgrIdle /\ PoolIdle /\ VtIdle /\ TwinIdle /\ ChainIdle /\ FnIdle /\ LockIdle
  /\ PoHNew(<<>>)

CallApplyPolicy ==
  /\ fn_name = "none"
  /\ \E alloc \in PolicyAllocations, priority \in PolicyPriorities,
        cores \in PolicyCores, thread_name \in PolicyNames,
        priority_ok \in BOOLEAN, affinity_ok \in BOOLEAN :
       /\ fn_name' = "apply_policy"
       /\ fn_args' = <<alloc, priority, cores, thread_name, priority_ok, affinity_ok>>
       /\ fn_result' = apply_policy(alloc, priority, cores, thread_name,
                                    priority_ok, affinity_ok)
  /\ UNCHANGED <<pohVars, schedVars, mgrVars, poolVars, vtVars, twinVars, chainVars, lockVars>>

PolicyNext == CallApplyPolicy

SpecPolicy == PolicyInit /\ [][PolicyNext]_vars

\* The positions in the list of attempted calls at which `op` was attempted.
CallsOf(op) == {i \in 1..Len(fn_result.calls) : fn_result.calls[i].op = op}

\* The sum of the bytes of a name.
RECURSIVE ByteSum(_)
ByteSum(bytes) == IF bytes = <<>> THEN 0 ELSE Head(bytes) + ByteSum(Tail(bytes))

\* The affinity the policy asks for: one core of the allowed set for
\* PinnedCores, the whole set for DedicatedCoreSet, none for OsDefault.
PolicyAffinity(alloc, cores, thread_name) ==
  IF alloc = "OsDefault" \/ cores = <<>> THEN <<>>
  ELSE IF alloc = "DedicatedCoreSet" THEN cores
  ELSE <<cores[(ByteSum(thread_name) % Len(cores)) + 1]>>

\* C33: apply_policy applies the affinity of the allocation first
\* (PinnedCores: the core allowed[sum of name bytes mod set size];
\* DedicatedCoreSet: the whole set; OsDefault: none) and only then, if
\* priority > 0, raises the priority; the affinity is applied whether or
\* not the priority step succeeds.
C33_AffinityThenPriority ==
  fn_name = "apply_policy" =>
    LET wanted == PolicyAffinity(fn_args[1], fn_args[3], fn_args[4])
    IN  /\ \A a \in CallsOf("affinity"), q \in CallsOf("priority") : a < q
        /\ \A a \in CallsOf("affinity") : fn_result.calls[a].arg = wanted
        /\ wanted # <<>> => CallsOf("affinity") # {}
        /\ wanted = <<>> => CallsOf("affinity") = {}
        /\ fn_args[2] > 0 <=> CallsOf("priority") # {}

\* C34: execute_wait returns to its caller for every closure that
\* finishes inside a worker, a closure that panics under the worker's
\* catch_unwind included: once the wrapper job of a call has ended, the
\* caller leaves the call.
C34_WaitReturnsWhenJobEnds ==
  \A j \in 1..MaxJobs :
    (JobState(j) = "done" /\ jobs[j].via = "execute_wait" /\ j = LastWaitJob)
      ~> (aux_pc = "idle")

\* The workers that hold job j, taken from the queue and not yet accounted.
Holders(j) == {w \in Workers : wk[w].job = j}

\* C35: every job accepted by execute / execute_batch / execute_wait is
\* taken from the queue by at most one worker and run at most once, and the
\* jobs are taken in the order they were queued: a job is in the queue at
\* most once and only while nobody has taken it, a taken job never returns
\* to the queue or to an earlier stage, and no job is taken while one
\* queued before it is still waiting.
C35_DequeuedOnceInOrder ==
  /\ [](\A j \in 1..Len(jobs) :
          /\ Cardinality(Holders(j)) <= 1
          /\ Cardinality({i \in 1..Len(job_queue) : job_queue[i] = j}) =
               (IF jobs[j].state = "queued" THEN 1 ELSE 0)
          /\ jobs[j].state \in {"taken", "running"} => Holders(j) # {}
          /\ jobs[j].state \in {"taken", "running", "done"} =>
               \A i \in 1..(j - 1) : jobs[i].state # "queued")
  /\ [](\A i \in 1..Len(job_queue), k \in 1..Len(job_queue) :
          i < k => job_queue[i] < job_queue[k])
  /\ [][\A j \in 1..Len(jobs) :
          /\ jobs[j].state = "taken" => jobs'[j].state \in {"taken", "running"}
          /\ jobs[j].state = "running" => jobs'[j].state \in {"running", "done"}
          /\ jobs[j].state = "done" => jobs'[j].state = "done"
          /\ (jobs[j].state = "queued" /\ jobs'[j].state = "taken") =>
               (job_queue[1] = j /\ job_queue' = Tail(job_queue))]_vars

\* Two workers hold one job each: the first queued was taken first, and
\* both were queued together.
C35_Witness ==
  /\ pool_size = 2
  /\ Len(jobs) = 2
  /\ wk[1].job # 0 /\ wk[2].job # 0
  /\ wk[1].job # wk[2].job
  /\ jobs[1].state = "running"
  /\ jobs[2].state = "taken"
  /\ job_queue = <<>>

\* ------------------------------------------------------------------------
\* Specification SpecPoolWait: a pool with one worker; its owner submits
\* jobs and calls wait_for_completion, and a second thread that borrows
\* the pool may call shutdown() at any moment.  (shutdown_now takes
\* &mut self and cannot run while wait_for_completion borrows the pool.)
\* The worker and the polling loop are scheduled fairly.
\* ------------------------------------------------------------------------
\* shutdown() on the second thread: store the flag, notify all.
OtherShutdown ==
  /\ aux_pc = "idle"
  /\ main_pc \notin {"clear", "joining", "joined"}
  /\ ~shutdown
  /\ shutdown' = TRUE
  /\ aux_result' = "shutdown_ok"
  /\ UNCHANGED <<pool_size, job_queue, active_workers, completed_jobs, stats, wk, jobs,
                 main_pc, main_result, wfc_submitted, join_stats, aux_pc, done_flag,
                 result_slot>>
  /\ UNCHANGED <<mgrVars, pohVars, schedVars, vtVars, twinVars, chainVars, fnVars, lockVars>>

PoolWaitNext ==
  \/ PoolWorkerTop \/ PoolWorkerLock \/ PoolWorkerWake \/ PoolWorkerBegin
  \/ PoolWorkerPeak \/ PoolWorkerRun \/ PoolWorkerDec \/ PoolWorkerCount
  \/ PoolWorkerStat
  \/ Execute \/ ExecuteBatch
  \/ WaitForCompletion \/ WaitPollQueue \/ WaitPollActive
  \/ OtherShutdown

SpecPoolWait ==
  /\ PoolLiveInit
  /\ [][PoolWaitNext]_vars
  /\ WF_vars(PoolWorkerTop) /\ WF_vars(PoolWorkerLock) /\ WF_vars(PoolWorkerWake)
  /\ WF_vars(PoolWorkerBegin) /\ WF_vars(PoolWorkerPeak) /\ WF_vars(PoolWorkerRun)
  /\ WF_vars(PoolWorkerDec) /\ WF_vars(PoolWorkerCount) /\ WF_vars(PoolWorkerStat)
  /\ WF_vars(WaitPollQueue) /\ WF_vars(WaitPollActive)

\* C36: wait_for_completion eventually returns (every closure submitted
\* terminates when run), also when another thread calls shutdown() while it
\* is polling.
C36_WaitForCompletionReturns ==
  (main_pc \in {"poll_queue", "poll_active"}) ~> (main_pc = "idle")

\* ------------------------------------------------------------------------
\* Specification SpecPoolDrop: a pool whose owner submits jobs, may shut
\* it down, and lets the ThreadPool value go out of scope.  ThreadPool has
\* no Drop of its own: its fields are dropped in turn, and dropping
\* `workers` drops each JoinHandle, whose Drop joins the thread
\* (thread/src/native/handle.rs).  The workers and the drop are scheduled
\* fairly.
\* ------------------------------------------------------------------------
PoolDropInit ==
  /\ SchedIdle
  /\ VtIdle /\ CallsIdle
  /\ PoHNew(<<>>)
  /\ \E n \in 1..MaxWorkers : PoolNew(n, FALSE)

\* The ThreadPool value is dropped; nothing in the drop touches the
\* shutdown flag.
DropBegin ==
  /\ main_pc = "idle"
  /\ main_pc' = "dropping"
  /\ UNCHANGED <<pool_size, job_queue, shutdown, active_workers, completed_jobs, stats,
                 wk, jobs, main_result, wfc_submitted, join_stats, aux_pc, aux_result,
                 done_flag, result_slot>>
  /\ UNCHANGED <<mgrVars, pohVars, schedVars, vtVars, twinVars, chainVars, fnVars, lockVars>>

\* Drop for JoinHandle, handle by handle in the order of the vector:
\* join_inner returns once the worker has left its loop and decrements
\* running_count.
DropWorker ==
  \E t \in handles :
    /\ main_pc = "dropping"
    /\ \A u \in handles : t <= u
    /\ mgr_threads[t] = "finished"
    /\ mgr_threads' = [mgr_threads EXCEPT ![t] = "joined"]
    /\ handles' = handles \ {t}
    /\ running_count' = running_count - 1
    /\ UNCHANGED <<mgr_max_threads, mgr_name_len, id_count, caller>>
    /\ UNCHANGED <<poolVars, vtVars, twinVars, chainVars, fnVars, lockVars, pohVars, schedVars>>

\* The last field has been dropped.
DropReturn ==
  /\ main_pc = "dropping"
  /\ handles = {}
  /\ main_pc' = "dropped"
  /\ UNCHANGED <<pool_size, job_queue, shutdown, active_workers, completed_jobs, stats,
                 wk, jobs, main_result, wfc_submitted, join_stats, aux_pc, aux_result,
                 done_flag, result_slot>>
  /\ UNCHANGED <<mgrVars, pohVars, schedVars, vtVars, twinVars, chainVars, fnVars, lockVars>>

PoolDropNext ==
  \/ PoolWorkerTop \/ PoolWorkerLock \/ PoolWorkerWake \/ PoolWorkerBegin
  \/ PoolWorkerPeak \/ PoolWorkerRun \/ PoolWorkerDec \/ PoolWorkerCount
  \/ PoolWorkerStat
  \/ Execute \/ Shutdown \/ ShutdownNowStore \/ ShutdownNowClear
  \/ DropBegin \/ DropWorker \/ DropReturn

SpecPoolDrop ==
  /\ PoolDropInit
  /\ [][PoolDropNext]_vars
  /\ WF_vars(PoolWorkerTop) /\ WF_vars(PoolWorkerLock) /\ WF_vars(PoolWorkerWake)
  /\ WF_vars(PoolWorkerBegin) /\ WF_vars(PoolWorkerPeak) /\ WF_vars(PoolWorkerRun)
  /\ WF_vars(PoolWorkerDec) /\ WF_vars(PoolWorkerCount) /\ WF_vars(PoolWorkerStat)
  /\ WF_vars(ShutdownNowClear) /\ WF_vars(DropWorker) /\ WF_vars(DropReturn)

\* C37: dropping a ThreadPool terminates: its worker handles are joined
\* and every worker exits, whether or not shutdown() or shutdown_now() was
\* called before the drop.
C37_DropTerminates ==
  /\ [](main_pc = "dropped" => \A w \in Workers : wk[w].pc = "exit")
  /\ (main_pc = "dropping") ~> (main_pc = "dropped")

\* C40: on a manager that was constructed successfully, every call of
\* spawn() takes the next number n = 0, 1, 2, ... for the name
\* "<manager name>-<n>", one number per call also when calls overlap, and
\* never fails because the name it generated is too long.
C40_SpawnNamesNeverTooLong ==
  [][MgrSpawn =>
       /\ id_count' = id_count + 1
       /\ \A c \in Callers :
            caller'[c] # caller[c] => caller'[c].result # "err_name"]_vars

====
